---- MODULE Spec2Model ----
(***************************************************************************)
(* A model of latent's indexing pipeline and retrieval/agent layer:        *)
(*   - the ContentStore          (src/main/db/queries.ts, schema.ts)       *)
(*   - the Chunker               (src/main/indexer/chunker.ts)             *)
(*   - the Indexer and Watcher   (src/main/indexer/parser.ts, l.128-687)   *)
(*   - the vault tools           (src/main/ai/tools.ts)                    *)
(*   - the agent loop            (Tool Specifications, "ReAct Loop")       *)
(* Each component has its own specification over the shared variables:     *)
(* Spec and SpecDbFaults (Indexer + Watcher + store), SpecStore,           *)
(* SpecChunk, SpecTools and SpecAgent.                                     *)
(***************************************************************************)
EXTENDS Integers, Sequences, FiniteSets, TLC

(***************************************************************************)
(* Bounds of the model.                                                    *)
(***************************************************************************)
\* ids handed out by the documents table (AUTOINCREMENT never reuses one)
MaxDocId == 3
\* the largest top_k a search is asked for
MaxTopK == 3
\* the longest token sequence and the largest chunkSize handed to chunkDocument
MaxTokens == 56
MaxChunkSize == 52
\* how many times the vault's files are written or deleted in Spec
MaxFsChanges == 1
\* the longest input array of an embed request
MaxInputs == 3
\* the longest vector handed to cosineSimilarity, and the largest finite number
\* of the model's floating point (Number.MAX_VALUE)
MaxVecLen == 2
MAX_VALUE == 8
\* the most inline links in a parsed note
MaxLinks == 2
\* the most paragraphs of a content handed to chunkDocumentSemantic, the longest
\* paragraph in tokens, and the largest maxChunkSize
MaxParagraphs == 3
MaxParagraphTokens == 4
MaxSemanticSize == 3
\* how many FileWatchers are constructed, and how many times one is started
MaxWatchers == 2
MaxStarts == 2

(***************************************************************************)
(* Program constants.                                                      *)
(***************************************************************************)
DEFAULT_CHUNK_SIZE == 500
DEFAULT_CHUNK_OVERLAP == 50
\* "Don't create tiny chunks at the end": chunkTokens.length < 50
MIN_CHUNK_TOKENS == 50

Null == "null"
\* a chunk's embedding column: NULL, or a vector
NullEmb == [null |-> TRUE]
Emb(v) == [null |-> FALSE, vec |-> v]

VARIABLES
  \* ---- ContentStore (SQLite tables) ----
  documents,    \* set of rows [id, path, checksum, title]
  chunks,       \* sequence of rows, in rowid order
  links,        \* set of rows [source_path, target_path, link_type, link_text]
  nextDocId,    \* next AUTOINCREMENT id of the documents table
  \* ---- a search call (SpecStore) ----
  searchResult, \* the last searchNotesByVector call: [status, k, filter, results]
  \* ---- a list_backlinks call (SpecStore) ----
  backlinks,    \* the last getBacklinks call: [called, path, rows]
  \* ---- one chunkDocument call (SpecChunk) ----
  ckN,          \* tokens.length
  ckSize,       \* chunkSize
  ckOverlap,    \* overlap
  ckI,          \* the loop variable i: the window start
  ckOut,        \* chunks
  ckPc,         \* "loop" | "done"
  \* ---- the vault tools and the filesystem they act on (SpecTools) ----
  tfiles,       \* absolute path -> note, or NoFile
  tdirs,        \* the directories that exist
  tcall,        \* the tool call in progress or last finished: [tool, path, status, value, args]
  tattempt,     \* readNote's loop variable i while a read_note call is in progress
  tfsOps,       \* the filesystem operations tcall has performed: set of [op, path]
  \* ---- one runAgent call (SpecAgent) ----
  agPc,         \* "idle" | "chat" | "tool" | "returned" | "failed"
  messages,     \* the transcript
  iteration,    \* the loop counter
  agCalls,      \* response.tool_calls of the current turn
  agNext,       \* position in agCalls of the call being executed
  agResult,     \* the value returned, or the error thrown
  agChatCalls,  \* how many times provider.chat was called
  agExecuted,   \* the calls handed to executeToolCall in the current turn, in order
  \* ---- the vault, the Indexer and its FileWatcher (Spec) ----
  files,        \* relative path -> Absent, or the file [content, mtime]
  fsClock,      \* the filesystem's clock: the mtime given to the last write
  deletedIndexed, \* history: the files deleted while Watching and indexed
  missedChanges,\* history: the paths changed with no native event, not enqueued by a scan or read by a handler since
  provider,     \* Indexer.provider is set
  isRunning,    \* "idle" | "running" | "stopped": Indexer.isRunning and its watcher
  ready,        \* readyPromise is resolved
  pollTimer,    \* FileWatcher.pollTimer is set
  debounceTimer,\* the armed timeouts that will call processQueue
  eventQueue,   \* FileWatcher.eventQueue, in insertion order: sequence of [type, path]
  knownFiles,   \* FileWatcher.knownFiles: relative path -> mtime, or Unknown
  scan,         \* the scanForChanges call in progress: NoScan or its `current` map
  run,          \* the processQueue / indexAll calls in progress, by slot
  errorLog,     \* currentFile of the progress events of phase 'error'
  \* ---- one chat / embed call of an LLMProvider (SpecProvider) ----
  pvCall,       \* the call: [impl, name, op, inputs, pc], pc "idle" | "await" | "returned" | "thrown"
  pvRequests,   \* the requests the call has sent to the underlying API
  pvEmbeddings, \* the embeddings the call has collected
  pvError,      \* the error the call has thrown, or NoError
  pvResponse,   \* what the underlying API answered to the last request, or NoResponse
  \* ---- one cosineSimilarity call (SpecCosine) ----
  simA,         \* the argument a
  simB,         \* the argument b
  simResult,    \* NoValue while the call is pending, then what it returned or that it threw
  \* ---- one parseMarkdown call: the visit of the tree's link nodes (SpecParse) ----
  mdNodes,      \* the link nodes of the tree in document order: sequence of [url, text]
  mdVisited,    \* how many of them the visitor has been called on
  mdLinks,      \* links: the Links pushed so far
  \* ---- one chunkDocumentSemantic call (SpecSemantic) ----
  scParagraphs, \* paragraphs: the token count of each (0 for the empty string)
  scMaxChunkSize, \* maxChunkSize
  scNext,       \* position in paragraphs of the next iteration of the loop
  scChunks,     \* chunks: sequence of [index, tokenCount]
  scCurrentChunk, \* currentChunk: the paragraphs joined in it, by position
  scCurrentTokens, \* currentTokens.length
  scIndex,      \* index
  scPc,         \* "idle" | "loop" | "returned"
  \* ---- the lifecycle of the Indexer and of its FileWatchers (SpecWatcherLife, SpecIndexerLife) ----
  lcWatchers,   \* the FileWatcher objects: id -> [constructed, watcher, readyPromise, resolved, emitted, scanning, pollTimer, intervals, starts]
  lcCalls,      \* the asynchronous calls in progress: slot -> [op, pc, w, awaits]
  lcLast,       \* the last start / stop / indexAll call that returned or threw at once: [op, w, error]
  lcRunning,    \* Indexer.isRunning
  lcWatcher,    \* Indexer.watcher: the id of a FileWatcher, or 0 for null
  lcVault,      \* the vault path exists
  \* ---- one FileWatcher's queue flushes and the progress events they report (SpecProgress) ----
  pqQueue,      \* eventQueue: the queued events, at most one per path
  pqOnProgress, \* an onProgress callback is set
  pqEvents,     \* processQueue's `events` array
  pqI,          \* processQueue's loop variable i
  pqPc,         \* "idle" | "loop" | "returned"
  pqLog         \* the progress events reported by the flush in progress or last finished

storeVars == <<documents, chunks, links, nextDocId>>
searchVars == <<searchResult, backlinks>>
chunkVars == <<ckN, ckSize, ckOverlap, ckI, ckOut, ckPc>>
toolVars == <<tfiles, tdirs, tcall, tattempt, tfsOps>>
agentVars == <<agPc, messages, iteration, agCalls, agNext, agResult, agChatCalls, agExecuted>>

fsVars == <<files, fsClock, deletedIndexed, missedChanges>>
watcherVars == <<isRunning, ready, pollTimer, debounceTimer, eventQueue, knownFiles, scan>>
indexerVars == <<provider, run, errorLog>>
idxVars == <<fsVars, watcherVars, indexerVars>>

providerVars == <<pvCall, pvRequests, pvEmbeddings, pvError, pvResponse>>
cosineVars == <<simA, simB, simResult>>
parseVars == <<mdNodes, mdVisited, mdLinks>>
semanticVars == <<scParagraphs, scMaxChunkSize, scNext, scChunks, scCurrentChunk, scCurrentTokens, scIndex, scPc>>
lifeVars == <<lcWatchers, lcCalls, lcLast, lcRunning, lcWatcher, lcVault>>
progressVars == <<pqQueue, pqOnProgress, pqEvents, pqI, pqPc, pqLog>>

vars == <<storeVars, searchVars, chunkVars, toolVars, agentVars, idxVars, providerVars, cosineVars, parseVars, semanticVars, lifeVars, progressVars>>

\* what the actions of one component leave alone
FrameStore == UNCHANGED <<chunkVars, toolVars, agentVars, idxVars, providerVars, cosineVars, parseVars, semanticVars, lifeVars, progressVars>>
FrameChunk == UNCHANGED <<storeVars, searchVars, toolVars, agentVars, idxVars, providerVars, cosineVars, parseVars, semanticVars, lifeVars, progressVars>>
FrameTools == UNCHANGED <<storeVars, searchVars, chunkVars, agentVars, idxVars, providerVars, cosineVars, parseVars, semanticVars, lifeVars, progressVars>>
FrameAgent == UNCHANGED <<storeVars, searchVars, chunkVars, toolVars, idxVars, providerVars, cosineVars, parseVars, semanticVars, lifeVars, progressVars>>
FrameIdx == UNCHANGED <<searchVars, chunkVars, toolVars, agentVars, providerVars, cosineVars, parseVars, semanticVars, lifeVars, progressVars>>
FrameProvider == UNCHANGED <<storeVars, searchVars, chunkVars, toolVars, agentVars, idxVars, cosineVars, parseVars, semanticVars, lifeVars, progressVars>>
FrameCosine == UNCHANGED <<storeVars, searchVars, chunkVars, toolVars, agentVars, idxVars, providerVars, parseVars, semanticVars, lifeVars, progressVars>>
FrameParse == UNCHANGED <<storeVars, searchVars, chunkVars, toolVars, agentVars, idxVars, providerVars, cosineVars, semanticVars, lifeVars, progressVars>>
FrameSemantic == UNCHANGED <<storeVars, searchVars, chunkVars, toolVars, agentVars, idxVars, providerVars, cosineVars, parseVars, lifeVars, progressVars>>
FrameLife == UNCHANGED <<storeVars, searchVars, chunkVars, toolVars, agentVars, idxVars, providerVars, cosineVars, parseVars, semanticVars, progressVars>>
FrameProgress == UNCHANGED <<storeVars, searchVars, chunkVars, toolVars, agentVars, idxVars, providerVars, cosineVars, parseVars, semanticVars, lifeVars>>

(***************************************************************************)
(* The vault's files, abstractly.  A content value stands for one file     *)
(* text; what the indexer derives from it is tabulated here.               *)
(***************************************************************************)
Paths == {"a.md", "b.md"}
Contents == {"c0", "c1", "c2", "c3"}

\* crypto.createHash('sha256').update(content).digest('hex')
Checksum(c) == "sha256:" \o c

\* encoding.encode(parsed.content).length
TokensOf(c) ==
  CASE c = "c0" -> 0
    [] c = "c1" -> 120
    [] c = "c2" -> 600
    [] c = "c3" -> 1380

\* parsed.title: the first H1, or null
TitleOf(c) ==
  CASE c = "c0" -> Null
    [] c = "c1" -> "One"
    [] c = "c2" -> "Two"
    [] c = "c3" -> "One"

\* tags, as strings of characters
ArtTag == <<"a", "r", "t">>
PartyTag == <<"p", "a", "r", "t", "y">>
MuTag == <<"m", "u">>

\* parsed.frontmatter: the `tags` of the note's frontmatter; << >> is a note
\* with no frontmatter, whose parsed.frontmatter is {}
FrontmatterOf(c) ==
  CASE c = "c0" -> << >>
    [] c = "c1" -> <<ArtTag>>
    [] c = "c2" -> <<PartyTag>>
    [] c = "c3" -> <<ArtTag, MuTag>>

Quoted(s) == <<"\"">> \o s \o <<"\"">>

RECURSIVE JoinComma(_)
JoinComma(ss) ==
  IF ss = << >> THEN << >>
  ELSE IF Len(ss) = 1 THEN Quoted(ss[1])
  ELSE Quoted(ss[1]) \o <<",">> \o JoinComma(Tail(ss))

\* JSON.stringify(data.frontmatter): {} or {"tags":[...]}
JSONstringify(tags) ==
  IF tags = << >> THEN <<"{", "}">>
  ELSE <<"{">> \o Quoted(<<"t", "a", "g", "s">>) \o <<":", "[">> \o JoinComma(tags)
       \o <<"]", "}">>

\* text LIKE '%' || pattern || '%'
Like(text, pattern) ==
  \E i \in 1..(Len(text) - Len(pattern) + 1) :
    SubSeq(text, i, i + Len(pattern) - 1) = pattern

\* parsed.links, in the order parseMarkdown pushes them
LinksOf(c) ==
  CASE c = "c0" -> << >>
    [] c = "c1" -> << [type |-> "wikilink", target |-> "b.md", text |-> "b"] >>
    [] c = "c2" -> << [type |-> "wikilink", target |-> "a.md", text |-> "a"],
                      [type |-> "wikilink", target |-> "a.md", text |-> "see a"],
                      [type |-> "embed", target |-> "x.png", text |-> "x.png"] >>
    [] c = "c3" -> << [type |-> "markdown", target |-> "b.md", text |-> "bee"],
                      [type |-> "wikilink", target |-> "z.md", text |-> "z"] >>

(***************************************************************************)
(* Chunker: chunkDocument on a token sequence of length n.  Only the token *)
(* counts are kept: a chunk is [index, tokenCount].                        *)
(***************************************************************************)
Min(a, b) == IF a <= b THEN a ELSE b

\* (a loop body whose merge branch also counts the window: index++)
ChunkLoopBodyMergeCounts(out, i, n, chunkSize) ==
  LET len == Min(chunkSize, n - i)
  IN IF len < MIN_CHUNK_TOKENS /\ Len(out) > 0
       THEN [out EXCEPT ![Len(out)].tokenCount = @ + len, ![Len(out)].index = @ + 1]
       ELSE Append(out, [index |-> Len(out), tokenCount |-> len])

\* One iteration of the for loop, at window start i.
ChunkLoopBody(out, i, n, chunkSize) ==
  LET len == Min(chunkSize, n - i)     \* tokens.slice(i, i + chunkSize).length
  IN IF len < MIN_CHUNK_TOKENS /\ Len(out) > 0
       THEN [out EXCEPT ![Len(out)].tokenCount = @ + len]
       ELSE Append(out, [index |-> Len(out), tokenCount |-> len])

RECURSIVE ChunkFrom(_, _, _, _, _)
ChunkFrom(out, i, n, chunkSize, overlap) ==
  IF i < n
    THEN ChunkFrom(ChunkLoopBody(out, i, n, chunkSize), i + (chunkSize - overlap),
                   n, chunkSize, overlap)
    ELSE out

chunkDocument(n, chunkSize, overlap) == ChunkFrom(<< >>, 0, n, chunkSize, overlap)

(***************************************************************************)
(* Embedding vectors and cosine similarity.  Vectors are small integer     *)
(* vectors; a score dot/(|a||b|) is kept exactly as [dot, den2] standing   *)
(* for dot/sqrt(den2), and compared without taking the root.               *)
(***************************************************************************)
Vectors == { <<1, 0>>, <<0, 1>>, <<1, 1>>, <<2, 1>>, <<0, 0>>, <<-1, 0>> }

RECURSIVE DotFrom(_, _, _)
DotFrom(a, b, i) == IF i > Len(a) THEN 0 ELSE a[i] * b[i] + DotFrom(a, b, i + 1)

\* cosineSimilarity(a, b) for a.length = b.length
cosineSimilarity(a, b) ==
  LET dot == DotFrom(a, b, 1)
      den2 == DotFrom(a, a, 1) * DotFrom(b, b, 1)
  IN IF den2 = 0 THEN [dot |-> 0, den2 |-> 1] ELSE [dot |-> dot, den2 |-> den2]

\* s >= t for scores s, t
ScoreGE(s, t) ==
  IF s.dot >= 0 /\ t.dot <= 0 THEN TRUE
  ELSE IF s.dot <= 0 /\ t.dot >= 0 THEN FALSE
  ELSE IF s.dot > 0 THEN s.dot * s.dot * t.den2 >= t.dot * t.dot * s.den2
  ELSE s.dot * s.dot * t.den2 <= t.dot * t.dot * s.den2

\* MIN_SIMILARITY_SCORE = 0.5 = 1/sqrt(4)
MIN_SIMILARITY_SCORE == [dot |-> 1, den2 |-> 4]

\* the provider's vector for chunk i of content c
EmbedVec(c, i) ==
  CASE c = "c1" -> <<1, 0>>
    [] c = "c2" -> IF i = 0 THEN <<1, 1>> ELSE <<1, 0>>
    [] c = "c3" -> IF i = 0 THEN <<2, 1>> ELSE IF i = 1 THEN <<-1, 0>> ELSE <<0, 0>>
    [] OTHER -> <<0, 0>>

(***************************************************************************)
(* ContentStore.  A store value is [documents, chunks, links, nextDocId];  *)
(* every query takes the store and returns the store after the statement.  *)
(***************************************************************************)
Store == [documents |-> documents, chunks |-> chunks, links |-> links,
          nextDocId |-> nextDocId]

EmptyStore == [documents |-> {}, chunks |-> << >>, links |-> {}, nextDocId |-> 1]

\* SELECT * FROM documents WHERE path = ?  (as a set: empty or one row)
getDocumentByPath(st, path) == { d \in st.documents : d.path = path }

\* (a DELETE with the foreign key not enforced: the Chunk rows stay)
deleteDocumentNoCascade(st, path) ==
  [st EXCEPT !.documents = { d \in @ : d.path # path }]

\* DELETE FROM documents WHERE path = ?, with chunks.document_id ON DELETE CASCADE
deleteDocument(st, path) ==
  LET gone == { d.id : d \in getDocumentByPath(st, path) }
  IN [st EXCEPT !.documents = { d \in @ : d.path # path },
                !.chunks = SelectSeq(@, LAMBDA c : c.document_id \notin gone)]

\* (a DELETE that removes no row)
deleteLinksNone(st, sourcePath) == st

\* DELETE FROM links WHERE source_path = ?
deleteLinks(st, sourcePath) ==
  [st EXCEPT !.links = { l \in @ : l.source_path # sourcePath }]

\* INSERT INTO documents; the new row's id is st.nextDocId (lastInsertRowid)
insertDocument(st, data) ==
  [st EXCEPT !.documents = @ \cup { [id |-> st.nextDocId, path |-> data.path,
                                      checksum |-> data.checksum,
                                      title |-> data.title,
                                      frontmatter |-> JSONstringify(data.frontmatter)] },
             !.nextDocId = @ + 1]

\* (a row that stores embeddingModel whatever the embedding is)
ChunkRowModelAlways(documentId, chunk, embedding, embeddingModel) ==
  [document_id |-> documentId,
   chunk_index |-> chunk.index,
   token_count |-> chunk.tokenCount,
   embedding |-> embedding,
   embedding_model |-> embeddingModel]

\* the row insertChunks writes for chunk i (1-based position in data.chunks)
ChunkRow(documentId, chunk, embedding, embeddingModel) ==
  [document_id |-> documentId,
   chunk_index |-> chunk.index,
   token_count |-> chunk.tokenCount,
   embedding |-> embedding,
   embedding_model |-> IF embedding.null THEN Null ELSE embeddingModel]

insertChunks(st, documentId, chks, embeddings, embeddingModel) ==
  [st EXCEPT !.chunks = @ \o [i \in 1..Len(chks) |->
                                ChunkRow(documentId, chks[i], embeddings[i],
                                         embeddingModel)]]

\* (a plain INSERT into a table without the UNIQUE constraint)
InsertLinkRowAlways(rows, sourcePath, link) ==
  rows \cup { [source_path |-> sourcePath, target_path |-> link.target,
               link_type |-> link.type, link_text |-> link.text] }

\* one INSERT OR IGNORE INTO links: ignored when (source, target, type) exists
InsertLinkRow(rows, sourcePath, link) ==
  IF \E r \in rows : /\ r.source_path = sourcePath
                     /\ r.target_path = link.target
                     /\ r.link_type = link.type
    THEN rows
    ELSE rows \cup { [source_path |-> sourcePath, target_path |-> link.target,
                      link_type |-> link.type, link_text |-> link.text] }

RECURSIVE InsertLinksFrom(_, _, _, _)
InsertLinksFrom(rows, sourcePath, lks, i) ==
  IF i > Len(lks) THEN rows
  ELSE InsertLinksFrom(InsertLinkRow(rows, sourcePath, lks[i]), sourcePath, lks, i + 1)

insertLinks(st, sourcePath, lks) ==
  [st EXCEPT !.links = InsertLinksFrom(@, sourcePath, lks, 1)]

\* (statements run one by one with no transaction around them: what ran
\* before the throw stays)
runInTransactionNoRollback(before, after, failAt) ==
  IF failAt = 0 THEN [store |-> after[Len(after)], ok |-> TRUE]
  ELSE [store |-> IF failAt = 1 THEN before ELSE after[failAt - 1], ok |-> FALSE]

\* a transaction that commits keeps the last statement's store; one whose
\* statement number failAt throws leaves the store as it was before
runInTransaction(before, after, failAt) ==
  IF failAt = 0 THEN [store |-> after[Len(after)], ok |-> TRUE]
  ELSE [store |-> before, ok |-> FALSE]

\* failAt: 0 = every statement succeeds, k = statement k of the transaction
\* throws (2: the DELETE of the old links, 4: the INSERTs of the chunks)
FailPoints == {0, 2, 4}

indexDocument(st, data, failAt) ==
  LET s1 == deleteDocument(st, data.path)
      s2 == deleteLinks(s1, data.path)
      s3 == insertDocument(s2, data)
      s4 == insertChunks(s3, s2.nextDocId, data.chunks, data.embeddings,
                         data.embeddingModel)
      s5 == insertLinks(s4, data.path, data.links)
  IN runInTransaction(st, <<s1, s2, s3, s4, s5>>, failAt)

(***************************************************************************)
(* searchNotesByVector                                                     *)
(***************************************************************************)
\* the `filter` argument: the requested tags (<< >>: no filter, or an empty
\* tags array)
NoFilter == [tags |-> << >>]

\* (a filter that no row has to pass)
FilterSQLAll(filter, d) == TRUE

\* the WHERE clause built for the filter: AND d.frontmatter LIKE ? with
\* `%${filter.tags[0]}%`
FilterSQL(filter, d) ==
  Len(filter.tags) > 0 => Like(d.frontmatter, filter.tags[1])

\* chunks c JOIN documents d ON c.document_id = d.id WHERE c.embedding IS NOT NULL
\* <filter>
SearchCandidates(st, filter) ==
  SelectSeq(st.chunks, LAMBDA c : /\ ~c.embedding.null
                                  /\ \E d \in st.documents : /\ d.id = c.document_id
                                                              /\ FilterSQL(filter, d))

DocOfChunk(st, c) == CHOOSE d \in st.documents : d.id = c.document_id

\* Array.prototype.filter
RECURSIVE FilterMinScore(_)
FilterMinScore(rs) ==
  IF rs = << >> THEN << >>
  ELSE IF ScoreGE(Head(rs).score, MIN_SIMILARITY_SCORE)
         THEN <<Head(rs)>> \o FilterMinScore(Tail(rs))
         ELSE FilterMinScore(Tail(rs))

\* Array.prototype.sort((a, b) => b.score - a.score): stable, descending
RECURSIVE InsertSorted(_, _)
InsertSorted(sorted, r) ==
  IF sorted = << >> THEN <<r>>
  ELSE IF ScoreGE(Head(sorted).score, r.score)
         THEN <<Head(sorted)>> \o InsertSorted(Tail(sorted), r)
         ELSE <<r>> \o sorted

RECURSIVE SortByScoreDesc(_)
SortByScoreDesc(rs) ==
  IF rs = << >> THEN << >>
  ELSE InsertSorted(SortByScoreDesc(SubSeq(rs, 1, Len(rs) - 1)), rs[Len(rs)])

\* (no slice: every result is returned)
SliceNoLimit(rs, k) == rs

\* Array.prototype.slice(0, k)
Slice(rs, k) ==
  LET end == IF k < 0 THEN (IF Len(rs) + k < 0 THEN 0 ELSE Len(rs) + k)
             ELSE Min(k, Len(rs))
  IN SubSeq(rs, 1, end)

searchNotesByVector(st, queryEmbedding, topK, filter) ==
  LET cands == SearchCandidates(st, filter)
  IN IF \E i \in 1..Len(cands) : Len(cands[i].embedding.vec) # Len(queryEmbedding)
       THEN [status |-> "error", k |-> topK, filter |-> filter, results |-> << >>]
       ELSE LET scored == [i \in 1..Len(cands) |->
                             LET d == DocOfChunk(st, cands[i])
                             IN [path |-> d.path,
                                 title |-> IF d.title = Null THEN d.path ELSE d.title,
                                 chunk_index |-> cands[i].chunk_index,
                                 score |-> cosineSimilarity(queryEmbedding,
                                                            cands[i].embedding.vec)]]
            IN [status |-> "ok", k |-> topK, filter |-> filter,
                results |-> Slice(SortByScoreDesc(FilterMinScore(scored)), topK)]

(***************************************************************************)
(* getBacklinks: links l LEFT JOIN documents d ON l.source_path = d.path   *)
(* WHERE l.target_path = ?.  A link whose source has no Document gives a   *)
(* row with source_title NULL.  The rows are kept as a set: (source, type) *)
(* is unique among the links of one target and path is unique among the    *)
(* documents, so no row repeats; ORDER BY d.title is left out.             *)
(***************************************************************************)
BacklinkRow(l, title) ==
  [source_path |-> l.source_path, link_text |-> l.link_text,
   link_type |-> l.link_type, source_title |-> title]

getBacklinks(st, targetPath) ==
  UNION { LET ds == { d \in st.documents : d.path = l.source_path }
          IN IF ds = {} THEN { BacklinkRow(l, Null) }
             ELSE { BacklinkRow(l, d.title) : d \in ds }
          : l \in { l2 \in st.links : l2.target_path = targetPath } }

(***************************************************************************)
(* What the Indexer hands to indexDocument for content c at path.          *)
(***************************************************************************)
ChunksOf(c) == chunkDocument(TokensOf(c), DEFAULT_CHUNK_SIZE, DEFAULT_CHUNK_OVERLAP)

\* embedResponse.embeddings for the chunks of c
EmbeddingsOf(c) == [i \in 1..Len(ChunksOf(c)) |-> Emb(EmbedVec(c, i - 1))]
\* chunks.map(() => null)
NullEmbeddings(c) == [i \in 1..Len(ChunksOf(c)) |-> NullEmb]

DocData(path, c, embeddings, embeddingModel) ==
  [path |-> path, checksum |-> Checksum(c), title |-> TitleOf(c),
   frontmatter |-> FrontmatterOf(c),
   chunks |-> ChunksOf(c), embeddings |-> embeddings,
   embeddingModel |-> embeddingModel, links |-> LinksOf(c)]

(***************************************************************************)
(* SpecStore: the queries module driven directly, as its unit tests do.    *)
(***************************************************************************)
NoSearch == [status |-> "none", k |-> 0, filter |-> NoFilter, results |-> << >>]
NoBacklinks == [called |-> FALSE, path |-> Null, rows |-> {}]

QueryIdle == searchResult = NoSearch /\ backlinks = NoBacklinks

\* the paths list_backlinks is asked about: the notes and two other link targets
BacklinkTargets == Paths \cup {"x.png", "z.md"}

QueryVectors == Vectors \cup { <<1>> }

SetStore(st) ==
  /\ documents' = st.documents
  /\ chunks' = st.chunks
  /\ links' = st.links
  /\ nextDocId' = st.nextDocId

StoreInit ==
  /\ documents = {}
  /\ chunks = << >>
  /\ links = {}
  /\ nextDocId = 1

\* the data indexFile hands to indexDocument, with or without embeddings
IndexData(p, c, withEmb) ==
  IF withEmb THEN DocData(p, c, EmbeddingsOf(c), "mock-model")
  ELSE DocData(p, c, NullEmbeddings(c), "none")

storeIndexDocument(p, c, withEmb, failAt) ==
    /\ nextDocId <= MaxDocId
    /\ SetStore(indexDocument(Store, IndexData(p, c, withEmb), failAt).store)
    /\ searchResult' = NoSearch
    /\ backlinks' = NoBacklinks
    /\ FrameStore

StoreIndexDocument ==
  \E p \in Paths, c \in Contents, withEmb \in BOOLEAN, failAt \in FailPoints :
    storeIndexDocument(p, c, withEmb, failAt)

StoreDeleteDocument ==
  \E p \in Paths :
    /\ SetStore(deleteDocument(Store, p))
    /\ searchResult' = NoSearch
    /\ backlinks' = NoBacklinks
    /\ FrameStore

StoreSearch ==
  \E q \in QueryVectors, k \in (-1)..MaxTopK :
    /\ searchResult' = searchNotesByVector(Store, q, k, NoFilter)
    /\ backlinks' = NoBacklinks
    /\ UNCHANGED storeVars
    /\ FrameStore

\* the searches with a tags filter: one tag, and two tags
TagFilters == { [tags |-> <<ArtTag>>], [tags |-> <<ArtTag, MuTag>>] }

FilteredQueries == { <<1, 0>> }

StoreSearchFiltered ==
  \E q \in FilteredQueries, f \in TagFilters :
    /\ searchResult' = searchNotesByVector(Store, q, MaxTopK, f)
    /\ backlinks' = NoBacklinks
    /\ UNCHANGED storeVars
    /\ FrameStore

\* list_backlinks: listBacklinks returns getBacklinks(args.path)
StoreBacklinks ==
  \E p \in BacklinkTargets :
    /\ backlinks' = [called |-> TRUE, path |-> p, rows |-> getBacklinks(Store, p)]
    /\ searchResult' = NoSearch
    /\ UNCHANGED storeVars
    /\ FrameStore
(***************************************************************************)
(* SpecChunk: one call of chunkDocument, its for loop run one iteration a  *)
(* step, for every input length and every (chunkSize, overlap) with        *)
(* 0 <= overlap < chunkSize.                                               *)
(***************************************************************************)
Overlaps(size) == { 0, 1, size \div 2, size - 1 } \cap 0..(size - 1)

\* (a loop whose window start advances by one token)
ChunkIterateByOne ==
  /\ ckPc = "loop"
  /\ ckI < ckN
  /\ ckOut' = ChunkLoopBody(ckOut, ckI, ckN, ckSize)
  /\ ckI' = ckI + 1
  /\ UNCHANGED <<ckN, ckSize, ckOverlap, ckPc>>
  /\ FrameChunk

\* the loop body at window start i, then i += chunkSize - overlap
ChunkIterate ==
  /\ ckPc = "loop"
  /\ ckI < ckN
  /\ ckOut' = ChunkLoopBody(ckOut, ckI, ckN, ckSize)
  /\ ckI' = ckI + (ckSize - ckOverlap)
  /\ UNCHANGED <<ckN, ckSize, ckOverlap, ckPc>>
  /\ FrameChunk

\* i >= tokens.length: return chunks
ChunkReturn ==
  /\ ckPc = "loop"
  /\ ckI >= ckN
  /\ ckPc' = "done"
  /\ UNCHANGED <<ckN, ckSize, ckOverlap, ckI, ckOut>>
  /\ FrameChunk

\* a chunker that is not running
ChunkIdle ==
  /\ ckN = 0 /\ ckSize = 1 /\ ckOverlap = 0 /\ ckI = 0 /\ ckOut = << >> /\ ckPc = "done"

ChunkInit ==
  /\ ckN \in 0..MaxTokens
  /\ ckSize \in 1..MaxChunkSize
  /\ ckOverlap \in Overlaps(ckSize)
  /\ ckI = 0
  /\ ckOut = << >>
  /\ ckPc = "loop"

(***************************************************************************)
(* Vault tools: paths.  A path string is a sequence of one-character       *)
(* strings, so that String.prototype.startsWith is a prefix test on        *)
(* characters, as in the code.                                             *)
(***************************************************************************)
RECURSIVE SplitFrom(_, _, _, _)
SplitFrom(str, i, cur, acc) ==
  IF i > Len(str) THEN Append(acc, cur)
  ELSE IF str[i] = "/" THEN SplitFrom(str, i + 1, << >>, Append(acc, cur))
  ELSE SplitFrom(str, i + 1, Append(cur, str[i]), acc)

\* the segments between the "/" of a path string
Segments(str) == SplitFrom(str, 1, << >>, << >>)

\* normalisation of a segment list: "" and "." are dropped, ".." removes the
\* segment before it (and nothing at the root)
RECURSIVE NormalizeFrom(_, _, _)
NormalizeFrom(segs, i, acc) ==
  IF i > Len(segs) THEN acc
  ELSE IF segs[i] = << >> \/ segs[i] = <<".">> THEN NormalizeFrom(segs, i + 1, acc)
  ELSE IF segs[i] = <<".", ".">>
    THEN NormalizeFrom(segs, i + 1,
                       IF acc = << >> THEN acc ELSE SubSeq(acc, 1, Len(acc) - 1))
  ELSE NormalizeFrom(segs, i + 1, Append(acc, segs[i]))

RECURSIVE JoinSegs(_)
JoinSegs(segs) ==
  IF segs = << >> THEN << >> ELSE <<"/">> \o Head(segs) \o JoinSegs(Tail(segs))

\* the absolute path string of a normalised segment list
AbsString(segs) == IF segs = << >> THEN <<"/">> ELSE JoinSegs(segs)

IsAbsolute(str) == str # << >> /\ str[1] = "/"

\* path.resolve(base, requested), base absolute
pathResolve(base, requested) ==
  IF IsAbsolute(requested)
    THEN AbsString(NormalizeFrom(Segments(requested), 1, << >>))
    ELSE AbsString(NormalizeFrom(Segments(base) \o Segments(requested), 1, << >>))

\* path.dirname of an absolute, normalised path string
pathDirname(str) ==
  LET segs == NormalizeFrom(Segments(str), 1, << >>)
  IN AbsString(IF segs = << >> THEN segs ELSE SubSeq(segs, 1, Len(segs) - 1))

\* String.prototype.startsWith
StartsWith(str, prefix) ==
  /\ Len(prefix) <= Len(str)
  /\ SubSeq(str, 1, Len(prefix)) = prefix

\* the vault root, /h/v
vaultPath == <<"/", "h", "/", "v">>

\* validatePath: the resolved path, or an 'Invalid path' error; the test is
\* String.prototype.startsWith on the resolved strings
validatePath(requestedPath) ==
  LET fullPath == pathResolve(vaultPath, requestedPath)
  IN [ok |-> StartsWith(fullPath, pathResolve(vaultPath, << >>)),
      fullPath |-> fullPath]

\* the path lies in the vault: the root itself, or below it segment by segment
InsideVault(fullPath) ==
  LET segs == Segments(fullPath)
      root == Segments(vaultPath)
  IN /\ Len(root) <= Len(segs)
     /\ SubSeq(segs, 1, Len(root)) = root

\* the paths the tools are called with
RequestedPaths ==
  { <<"a">>,                                     \* a
    <<"s", "/", "a">>,                           \* s/a
    << >>,                                       \* the empty path: the vault itself
    <<".", ".", "/", "v", "/", "a">>,            \* ../v/a
    <<".", ".", "/", "v", "x", "/", "a">>,       \* ../vx/a
    <<".", ".", "/", "e", "/", "a">>,            \* ../e/a
    <<".", ".", "/", ".", ".", "/", "e">>,       \* ../../e
    <<".", ".", "/", ".", ".", "/", ".", ".", "/", "e", "/", "p">>,  \* ../../../e/p
    <<"/", "e", "/", "p">>,                      \* /e/p
    <<"/", "h", "/", "v", "x", "/", "a">>,       \* /h/vx/a
    <<"/", "h", "/", "v", "/", "a">> }           \* /h/v/a

FullPaths == { pathResolve(vaultPath, r) : r \in RequestedPaths }

\* validatePath and path.dirname over the paths of the model
Validated == [r \in RequestedPaths |-> validatePath(r)]
DirnameOf == [f \in FullPaths |-> pathDirname(f)]
VaultFiles == { f \in FullPaths : InsideVault(f) }

(***************************************************************************)
(* Vault tools: notes and the filesystem.  A note text is its lines and    *)
(* whether the last one ends with a newline; a line is the delimiter       *)
(* "---", a YAML line "k: v", or a line of Markdown.  gray-matter is       *)
(* modelled on such texts: matter() splits a text at the delimiters,       *)
(* matter.stringify() writes a block and the content back.                 *)
(*                                                                         *)
(* What the model leaves out: YAML other than one "k: v" line per key (no  *)
(* nested values, comments, dates or duplicate keys), a block opened and   *)
(* never closed, "\r\n" line ends, excerpts and other front-matter         *)
(* languages.                                                              *)
(***************************************************************************)
NoFile == [nofile |-> TRUE]

Delim == [kind |-> "delim", k |-> "", v |-> ""]
KeyLine(k, v) == [kind |-> "key", k |-> k, v |-> v]
TextLine(t) == [kind |-> "text", k |-> "", v |-> t]

Text(lines, eol) == [lines |-> lines, eol |-> eol]
\* the empty string
EmptyText == Text(<< >>, FALSE)

FmKeys == {"k1", "k2"}

\* an object, as its entries in insertion order
Entry(k, v) == [k |-> k, v |-> v]
HasKey(data, k) == \E i \in 1..Len(data) : data[i].k = k
ValueOf(data, k) == data[CHOOSE i \in 1..Len(data) : data[i].k = k].v

\* { ...a, ...b }, Object.assign({}, a, b): the keys of a in their order with
\* b's values where b has the key, then the keys only b has
ObjectSpread(a, b) ==
  [i \in 1..Len(a) |-> IF HasKey(b, a[i].k) THEN Entry(a[i].k, ValueOf(b, a[i].k))
                       ELSE a[i]]
  \o SelectSeq(b, LAMBDA e : ~HasKey(a, e.k))

\* yaml.safeLoad of the lines of a block
yamlLoad(lines) ==
  LET keys == SelectSeq(lines, LAMBDA l : l.kind = "key")
  IN [i \in 1..Len(keys) |-> Entry(keys[i].k, keys[i].v)]

\* yaml.safeDump of an object
yamlDump(data) == [i \in 1..Len(data) |-> KeyLine(data[i].k, data[i].v)]

\* matter(text): a text that starts with the delimiter is split at the next
\* delimiter line; what follows it, less one line end, is the content
matter(text) ==
  IF text.lines = << >> \/ text.lines[1] # Delim
    THEN [data |-> << >>, content |-> text]
    ELSE LET n == Len(text.lines)
             closers == { j \in 2..n : text.lines[j] = Delim }
             close == IF closers = {} THEN n + 1
                      ELSE CHOOSE j \in closers : \A j2 \in closers : j <= j2
         IN [data |-> yamlLoad(SubSeq(text.lines, 2, close - 1)),
             content |-> IF close >= n THEN EmptyText
                         ELSE Text(SubSeq(text.lines, close + 1, n), text.eol)]

\* newline(str): str, with "\n" appended unless it ends with one
newline(text) ==
  IF text.lines = << >> THEN Text(<<TextLine("")>>, TRUE)
  ELSE Text(text.lines, TRUE)

\* matter.stringify(content, data) with content a string: the string is
\* parsed by matter() first, data is laid over what that finds, and the
\* block and the content are written, each ended by a newline
matterStringify(content, data) ==
  LET file == matter(content)
      merged == ObjectSpread(file.data, data)
      block == IF merged = << >> THEN << >>
               ELSE <<Delim>> \o yamlDump(merged) \o <<Delim>>
  IN Text(block \o newline(file.content).lines, TRUE)

\* the texts write_note is called with, and the notes of the vault: no
\* front matter; front matter and no newline at the end (as the notes of
\* the unit tests)
NoteTexts ==
  { Text(<<TextLine("b1")>>, TRUE),
    Text(<<Delim, KeyLine("k1", "x"), Delim, TextLine("b2")>>, FALSE) }

\* the updates update_frontmatter is called with
FmUpdates == { <<Entry("k1", "y")>>, <<Entry("k2", "x")>> }

\* every directory on the way to dir, dir included (mkdir with recursive: true)
DirAndAncestors(dir) ==
  LET segs == NormalizeFrom(Segments(dir), 1, << >>)
  IN { AbsString(SubSeq(segs, 1, n)) : n \in 0..Len(segs) }

\* a call whose arguments were parsed from JSON
ToolCall(tool, path, status, value) ==
  [tool |-> tool, path |-> path, status |-> status, value |-> value, args |-> "json"]

NoCall == ToolCall("none", << >>, "ok", NoFile)

ToolsInit ==
  /\ tfiles = [f \in FullPaths |->
                 IF f = <<"/", "h", "/", "v", "/", "a">>
                   THEN Text(<<TextLine("b1")>>, TRUE)
                 ELSE IF f = <<"/", "h", "/", "v", "x", "/", "a">>
                   THEN Text(<<Delim, KeyLine("k1", "x"), Delim, TextLine("b2")>>, FALSE)
                 ELSE NoFile]
  /\ tdirs = { <<"/">>, <<"/", "h">>, <<"/", "h", "/", "v">>,
               <<"/", "h", "/", "v", "x">>, <<"/", "e">> }
  /\ tcall = NoCall
  /\ tattempt = 0
  /\ tfsOps = {}

\* readNote's loop: attempts = 10
READ_ATTEMPTS == 10

\* read_note: validatePath, then the read loop starts
ReadNoteCall ==
  \E r \in RequestedPaths :
    /\ tcall.status # "pending"
    /\ LET v == Validated[r]
       IN tcall' = ToolCall("read_note", r,
                            IF v.ok THEN "pending" ELSE "Invalid path", NoFile)
    /\ tattempt' = 0
    /\ tfsOps' = {}
    /\ UNCHANGED <<tfiles, tdirs>>
    /\ FrameTools

\* one fs.readFile of the loop: the content, ENOENT (retry after the backoff, or
\* 'Note not found' on the last attempt), or another error thrown as it is
ReadNoteAttempt ==
  /\ tcall.tool = "read_note"
  /\ tcall.status = "pending"
  /\ LET fullPath == Validated[tcall.path].fullPath
     IN /\ tfsOps' = tfsOps \cup { [op |-> "read", path |-> fullPath] }
        /\ IF fullPath \in tdirs
             THEN /\ tcall' = [tcall EXCEPT !.status = "EISDIR"]
                  /\ UNCHANGED tattempt
           ELSE IF tfiles[fullPath] # NoFile
             THEN /\ tcall' = [tcall EXCEPT !.status = "ok", !.value = tfiles[fullPath]]
                  /\ UNCHANGED tattempt
           ELSE IF tattempt < READ_ATTEMPTS - 1
             THEN /\ tattempt' = tattempt + 1
                  /\ UNCHANGED tcall
           ELSE /\ tcall' = [tcall EXCEPT !.status = "Note not found"]
                /\ UNCHANGED tattempt
  /\ UNCHANGED <<tfiles, tdirs>>
  /\ FrameTools

\* write_note: validatePath, mkdir(dirname, recursive), writeFile
WriteNoteCall ==
  \E r \in RequestedPaths, text \in NoteTexts :
    /\ tcall.status # "pending"
    /\ tattempt' = 0
    /\ LET v == Validated[r]
           dir == DirnameOf[v.fullPath]
       IN IF ~v.ok
            THEN /\ tcall' = ToolCall("write_note", r, "Invalid path", NoFile)
                 /\ tfsOps' = {}
                 /\ UNCHANGED <<tfiles, tdirs>>
          ELSE IF v.fullPath \in tdirs
            THEN /\ tcall' = ToolCall("write_note", r, "EISDIR", NoFile)
                 /\ tdirs' = tdirs \cup DirAndAncestors(dir)
                 /\ tfsOps' = { [op |-> "mkdir", path |-> dir],
                                [op |-> "write", path |-> v.fullPath] }
                 /\ UNCHANGED tfiles
          ELSE /\ tcall' = ToolCall("write_note", r, "ok", NoFile)
               /\ tdirs' = tdirs \cup DirAndAncestors(dir)
               /\ tfiles' = [tfiles EXCEPT ![v.fullPath] = text]
               /\ tfsOps' = { [op |-> "mkdir", path |-> dir],
                              [op |-> "write", path |-> v.fullPath] }
    /\ FrameTools

\* update_frontmatter: validatePath, readFile, matter, merge, stringify, writeFile
updateFrontmatter(r, updates) ==
    /\ tcall.status # "pending"
    /\ tattempt' = 0
    /\ LET v == Validated[r]
       IN IF ~v.ok
            THEN /\ tcall' = ToolCall("update_frontmatter", r, "Invalid path", NoFile)
                 /\ tfsOps' = {}
                 /\ UNCHANGED tfiles
          ELSE IF v.fullPath \in tdirs \/ tfiles[v.fullPath] = NoFile
            THEN /\ tcall' = ToolCall("update_frontmatter", r,
                                      IF v.fullPath \in tdirs THEN "EISDIR" ELSE "ENOENT",
                                      NoFile)
                 /\ tfsOps' = { [op |-> "read", path |-> v.fullPath] }
                 /\ UNCHANGED tfiles
          ELSE /\ tcall' = ToolCall("update_frontmatter", r, "ok", NoFile)
               /\ LET parsed == matter(tfiles[v.fullPath])
                      updatedData == ObjectSpread(parsed.data, updates)
                  IN tfiles' = [tfiles EXCEPT ![v.fullPath] =
                                  matterStringify(parsed.content, updatedData)]
               /\ tfsOps' = { [op |-> "read", path |-> v.fullPath],
                              [op |-> "write", path |-> v.fullPath] }
    /\ UNCHANGED tdirs
    /\ FrameTools

UpdateFrontmatterCall ==
  \E r \in RequestedPaths, updates \in FmUpdates : updateFrontmatter(r, updates)

\* another writer (the editor, the user) creates or removes a note of the vault
VaultFileChanges ==
  \E f \in VaultFiles \ tdirs,
     text \in NoteTexts \cup {NoFile} :
    /\ DirnameOf[f] \in tdirs
    /\ tfiles[f] # text
    /\ tfiles' = [tfiles EXCEPT ![f] = text]
    /\ UNCHANGED <<tdirs, tcall, tattempt, tfsOps>>
    /\ FrameTools

(***************************************************************************)
(* executeToolCall: JSON.parse of the arguments, then the switch on the    *)
(* tool name.  The cases of the catalogue are the actions above; here are  *)
(* the calls that reach no tool: arguments that do not parse, and names    *)
(* the switch has no case for.                                             *)
(***************************************************************************)
Catalogue ==
  {"read_note", "search_notes", "write_note", "update_frontmatter", "list_backlinks"}

\* the names the model calls executeToolCall with besides the catalogue's
OtherToolNames == {"unknown_tool", "delete_note"}

\* the names called with arguments that are no JSON
MalformedCallNames == {"unknown_tool", "read_note"}

\* (a default case that returns)
switchDefaultReturns(name) == "ok"

\* default: throw new Error(`Unknown tool: ${toolCall.function.name}`)
switchDefault(name) == "Unknown tool"

\* what executeToolCall does before and instead of calling a tool:
\* "SyntaxError" thrown by JSON.parse, the default case, or the tool's case
executeToolCall(name, args) ==
  IF args = "malformed" THEN "SyntaxError"
  ELSE IF name \in Catalogue THEN "case"
  ELSE switchDefault(name)

ExecuteNoTool ==
  \E name \in OtherToolNames \cup MalformedCallNames, args \in {"json", "malformed"} :
    /\ tcall.status # "pending"
    /\ args = "malformed" => name \in MalformedCallNames
    /\ executeToolCall(name, args) # "case"
    /\ tcall' = [ToolCall(name, << >>, executeToolCall(name, args), NoFile)
                   EXCEPT !.args = args]
    /\ tattempt' = 0
    /\ tfsOps' = {}
    /\ UNCHANGED <<tfiles, tdirs>>
    /\ FrameTools
(***************************************************************************)
(* Agent loop: runAgent.  A step runs from one await to the next: the chat *)
(* call is awaited in "chat", an executeToolCall in "tool".                *)
(***************************************************************************)
\* const maxIterations = 10
MAX_ITERATIONS == 10

Msg(role, content, name, id) ==
  [role |-> role, content |-> content, name |-> name, tool_call_id |-> id]

Call(id, name) == [id |-> id, name |-> name]

\* what the chat capability may answer
ChatResponses ==
  { [content |-> "answer", tool_calls |-> << >>],
    [content |-> "", tool_calls |-> << Call("t1", "read_note") >>],
    [content |-> "", tool_calls |-> << Call("t2", "search_notes"),
                                       Call("t3", "write_note") >>] }

EXCEEDED == "Agent exceeded maximum iterations"

AgentInit ==
  /\ agPc = "idle"
  /\ messages = << >>
  /\ iteration = 0
  /\ agCalls = << >>
  /\ agNext = 0
  /\ agResult = Null
  /\ agChatCalls = 0
  /\ agExecuted = << >>

\* (a loop test that lets one more turn through)
LoopContinuesOffByOne(it) == it <= MAX_ITERATIONS

\* the while test; when it passes: iteration++ and provider.chat is called
LoopContinues(it) == it < MAX_ITERATIONS

\* the top of the while loop, reached from the start or after the last tool call
EnterLoop ==
  IF LoopContinues(iteration)
    THEN /\ iteration' = iteration + 1
         /\ agChatCalls' = agChatCalls + 1
         /\ agPc' = "chat"
         /\ agResult' = agResult
    ELSE /\ agPc' = "failed"
         /\ agResult' = EXCEEDED
         /\ UNCHANGED <<iteration, agChatCalls>>

\* runAgent(userMessage): the transcript is set up and the first turn starts
AgentStart ==
  /\ agPc = "idle"
  /\ messages' = << Msg("system", "prompt", Null, Null),
                    Msg("user", "question", Null, Null) >>
  /\ EnterLoop
  /\ UNCHANGED <<agCalls, agNext, agExecuted>>
  /\ FrameAgent

\* (a tool message with tool_call_id and name exchanged)
ToolMessageSwapped(call) == Msg("tool", "result", call.id, call.name)

\* the tool-result message pushed for a call
ToolMessage(call) == Msg("tool", "result", call.name, call.id)

\* provider.chat resolves: the assistant message is pushed; without tool calls
\* its content is returned, otherwise the first call is handed to executeToolCall
AgentChatResponds ==
  \E response \in ChatResponses :
    /\ agPc = "chat"
    /\ messages' = Append(messages, Msg("assistant", response.content, Null, Null))
    /\ agCalls' = response.tool_calls
    /\ IF Len(response.tool_calls) = 0
         THEN /\ agPc' = "returned"
              /\ agResult' = response.content
              /\ agNext' = 0
              /\ agExecuted' = << >>
         ELSE /\ agPc' = "tool"
              /\ agNext' = 1
              /\ agExecuted' = << response.tool_calls[1] >>
              /\ UNCHANGED agResult
    /\ UNCHANGED <<iteration, agChatCalls>>
    /\ FrameAgent

\* provider.chat rejects: the error leaves runAgent
AgentChatFails ==
  /\ agPc = "chat"
  /\ agPc' = "failed"
  /\ agResult' = "chat error"
  /\ UNCHANGED <<messages, iteration, agCalls, agNext, agChatCalls, agExecuted>>
  /\ FrameAgent

\* executeToolCall resolves: its result is pushed; then the next call of the
\* response is executed, or the loop goes round
AgentToolReturns ==
  /\ agPc = "tool"
  /\ messages' = Append(messages, ToolMessage(agCalls[agNext]))
  /\ IF agNext < Len(agCalls)
       THEN /\ agNext' = agNext + 1
            /\ agExecuted' = Append(agExecuted, agCalls[agNext + 1])
            /\ UNCHANGED <<agPc, agResult, iteration, agChatCalls>>
       ELSE /\ EnterLoop
            /\ UNCHANGED <<agNext, agExecuted>>
  /\ UNCHANGED agCalls
  /\ FrameAgent

\* executeToolCall rejects (unknown tool, invalid path, ...): the error leaves runAgent
AgentToolThrows ==
  /\ agPc = "tool"
  /\ agPc' = "failed"
  /\ agResult' = "tool error"
  /\ UNCHANGED <<messages, iteration, agCalls, agNext, agChatCalls, agExecuted>>
  /\ FrameAgent

(***************************************************************************)
(* Spec: the vault, the Indexer and its FileWatcher.                       *)
(*                                                                         *)
(* JavaScript runs one callback at a time, so a step of the model is what  *)
(* runs between two awaits on real I/O (readFile, stat, embed, readdir) or *)
(* timers.  better-sqlite3 is synchronous: a query never spans two steps.  *)
(*                                                                         *)
(* What the model leaves out:                                              *)
(*  - a walk of the vault reads it at one instant; a poll's scan is one    *)
(*    step (walk and comparison), the first scan ('ready') is two;         *)
(*  - one processQueue call runs at a time, overlapping with indexAll: the *)
(*    debounce timer fires when the previous call has returned;            *)
(*  - the vault changes while the Indexer runs, and only in EditedPaths;   *)
(*  - the handler of an unlink event is a step of its own (in the code it  *)
(*    runs in the callback that finished the previous event);              *)
(*  - deleteDocument does not throw; reindexFile and reindexAll are not    *)
(*    called.                                                              *)
(***************************************************************************)
Absent == [exists |-> FALSE]
File(c, mtime) == [exists |-> TRUE, content |-> c, mtime |-> mtime]

\* the vault when the Indexer is constructed: two notes linking to each other
InitialVault == [p \in Paths |-> File(IF p = "a.md" THEN "c1" ELSE "c2", 0)]

\* the notes that are edited or deleted while the Indexer runs, and the
\* text an edit leaves
EditedPaths == {"a.md"}
EditedContents == {"c2"}

\* readdir order of the vault's notes
PathOrder == <<"a.md", "b.md">>

\* Map.get of a missing key
Unknown == -1

NoScan == [active |-> FALSE]

\* the processQueue calls in progress and the indexAll call, which may
\* overlap
QueueRuns == {"queue", "queue2"}
RunIds == QueueRuns \cup {"all"}

\* the processQueue calls of a watcher whose timeout never fires before the
\* previous call has returned
SerialRuns == {"queue"}

NoContent == "-"
IdleRun == [pc |-> "idle", todo |-> << >>, content |-> NoContent]

Event(type, path) == [type |-> type, path |-> path]

\* (a queue that appends every event)
enqueueEventAppend(q, ev) == Append(q, ev)

\* eventQueue.set(relativePath, event): a Map keeps a key's first position
enqueueEvent(q, ev) ==
  IF \E i \in 1..Len(q) : q[i].path = ev.path
    THEN [i \in 1..Len(q) |-> IF q[i].path = ev.path THEN ev ELSE q[i]]
    ELSE Append(q, ev)

\* (a clearTimeout that cancels nothing)
clearTimeoutNoop(n) == n

\* clearTimeout(this.debounceTimer): the timeout the field refers to, the
\* last one armed, is no longer armed
clearTimeout(n) == IF n > 0 THEN n - 1 ELSE 0

setTimeout(n) == n + 1

\* enqueueEvent: the pending flush is cancelled and a new one is armed
armDebounce(n) == setTimeout(clearTimeout(n))

RECURSIVE ArmAll(_, _)
ArmAll(n, evs) == IF evs = << >> THEN n ELSE ArmAll(armDebounce(n), Tail(evs))

RECURSIVE EnqueueAll(_, _)
EnqueueAll(q, evs) ==
  IF evs = << >> THEN q ELSE EnqueueAll(enqueueEvent(q, Head(evs)), Tail(evs))

\* the `current` map a walk of the vault builds: path -> mtime
Snapshot(fs) == [p \in Paths |-> IF fs[p].exists THEN fs[p].mtime ELSE Unknown]

\* the events scanForChanges enqueues: new or changed files, then deleted ones
ScanEvents(current, known) ==
  LET changed == SelectSeq(PathOrder, LAMBDA p : /\ current[p] # Unknown
                                                 /\ known[p] # current[p])
      gone == SelectSeq(PathOrder, LAMBDA p : /\ known[p] # Unknown
                                              /\ current[p] = Unknown)
  IN [i \in 1..Len(changed) |->
        Event(IF known[changed[i]] = Unknown THEN "add" ELSE "change", changed[i])]
     \o [i \in 1..Len(gone) |-> Event("unlink", gone[i])]

\* allFiles of indexAll, as 'add' events
AllFilesEvents(fs) ==
  LET present == SelectSeq(PathOrder, LAMBDA p : fs[p].exists)
  IN [i \in 1..Len(present) |-> Event("add", present[i])]

\* (an indexFile that never skips)
UnchangedNever(existing, checksum) == FALSE

\* `existing && existing.checksum === checksum`
Unchanged(existing, checksum) == \E d \in existing : d.checksum = checksum

\* (a catch that rethrows)
OnEmbedErrorRethrow(c) ==
  [proceed |-> FALSE, embeddings |-> NullEmbeddings(c), embeddingModel |-> "none"]

\* the catch of a rejected embed call: proceed, with chunks.map(() => null)
OnEmbedError(c) ==
  [proceed |-> TRUE, embeddings |-> NullEmbeddings(c), embeddingModel |-> "none"]

\* the handler of the next event of a run starts: up to its first await
Dispatch(todo) ==
  IF todo = << >> THEN IdleRun
  ELSE [pc |-> IF Head(todo).type = "unlink" THEN "unlink" ELSE "read",
        todo |-> todo, content |-> NoContent]

\* the event at the head of run r is finished; the loop goes to the next one
NextEvent(r) == Dispatch(Tail(run[r].todo))

\* handleFileEvent returned for an add/change: processQueue goes on to
\* fs.stat the file, indexAll to its next file
AfterIndexed(r) ==
  IF r \in QueueRuns THEN [run[r] EXCEPT !.pc = "kstat", !.content = NoContent]
  ELSE NextEvent(r)

\* handleFileEvent threw: both loops catch, log to the console and go on;
\* processQueue also reports a progress event of phase 'error' with
\* currentFile, indexAll does not
AfterError(r, p) ==
  /\ run' = [run EXCEPT ![r] = NextEvent(r)]
  /\ errorLog' = IF r \in QueueRuns THEN errorLog \cup {p} ELSE errorLog

CurrentPath(r) == Head(run[r].todo).path

IdxInit ==
  /\ files = InitialVault
  /\ fsClock = 0
  /\ deletedIndexed = {}
  /\ missedChanges = {}
  /\ provider \in BOOLEAN
  /\ isRunning = "idle"
  /\ ready = FALSE
  /\ pollTimer = FALSE
  /\ debounceTimer = 0
  /\ eventQueue = << >>
  /\ knownFiles = [p \in Paths |-> Unknown]
  /\ scan = NoScan
  /\ run = [r \in RunIds |-> IdleRun]
  /\ errorLog = {}

\* the state in which the Indexer and the Watcher are not constructed
IdxIdle ==
  /\ files = [p \in Paths |-> Absent]
  /\ fsClock = 0
  /\ deletedIndexed = {}
  /\ missedChanges = {}
  /\ provider = FALSE
  /\ isRunning = "idle"
  /\ ready = FALSE
  /\ pollTimer = FALSE
  /\ debounceTimer = 0
  /\ eventQueue = << >>
  /\ knownFiles = [p \in Paths |-> Unknown]
  /\ scan = NoScan
  /\ run = [r \in RunIds |-> IdleRun]
  /\ errorLog = {}

Watching == isRunning = "running" /\ ready

\* chokidar delivers an event for a change (or misses it) while it is open
NativeEvent(notify, ev) ==
  /\ IF notify /\ isRunning = "running"
       THEN /\ eventQueue' = enqueueEvent(eventQueue, ev)
            /\ debounceTimer' = armDebounce(debounceTimer)
       ELSE UNCHANGED <<eventQueue, debounceTimer>>
  /\ missedChanges' = IF isRunning # "running" THEN missedChanges
                      ELSE IF notify THEN missedChanges \ {ev.path}
                      ELSE missedChanges \cup {ev.path}

\* a note is created or rewritten in the vault
fsWrite(p, c, notify) ==
    /\ isRunning = "running"
    /\ fsClock < MaxFsChanges
    /\ fsClock' = fsClock + 1
    /\ files' = [files EXCEPT ![p] = File(c, fsClock + 1)]
    /\ deletedIndexed' = deletedIndexed \ {p}
    /\ NativeEvent(notify, Event(IF files[p].exists THEN "change" ELSE "add", p))
    /\ UNCHANGED <<isRunning, ready, pollTimer, knownFiles, scan, indexerVars, storeVars>>
    /\ FrameIdx

FsWrite ==
  \E p \in EditedPaths, c \in EditedContents, notify \in BOOLEAN : fsWrite(p, c, notify)

\* a note is deleted from the vault
fsDelete(p, notify) ==
    /\ fsClock < MaxFsChanges
    /\ files[p].exists
    /\ fsClock' = fsClock + 1
    /\ files' = [files EXCEPT ![p] = Absent]
    /\ deletedIndexed' = IF Watching /\ getDocumentByPath(Store, p) # {}
                           THEN deletedIndexed \cup {p} ELSE deletedIndexed
    /\ NativeEvent(notify, Event("unlink", p))
    /\ UNCHANGED <<isRunning, ready, pollTimer, knownFiles, scan, indexerVars, storeVars>>
    /\ FrameIdx

FsDelete == \E p \in EditedPaths, notify \in BOOLEAN : fsDelete(p, notify)
(***************************************************************************)
(* Indexer.start / FileWatcher.start, stop, the timers and the scans.      *)
(***************************************************************************)
\* Indexer.start: the watcher is created, chokidar reports the files it
\* finds ('add', ignoreInitial: false) and then 'ready', whose handler
\* begins the first scanForChanges; indexAll waits for readyPromise.
Start ==
  /\ isRunning = "idle"
  /\ isRunning' = "running"
  /\ eventQueue' = EnqueueAll(<< >>, AllFilesEvents(files))
  /\ debounceTimer' = ArmAll(0, AllFilesEvents(files))
  /\ scan' = [active |-> TRUE, current |-> Snapshot(files)]
  /\ UNCHANGED <<ready, pollTimer, knownFiles, fsVars, indexerVars, storeVars>>
  /\ FrameIdx

\* Indexer.stop / FileWatcher.stop
Stop ==
  /\ isRunning = "running"
  /\ isRunning' = "stopped"
  /\ debounceTimer' = clearTimeout(debounceTimer)
  /\ pollTimer' = FALSE
  /\ eventQueue' = << >>
  /\ missedChanges' = {}
  /\ UNCHANGED <<ready, knownFiles, scan, files, fsClock, deletedIndexed, indexerVars,
                 storeVars>>
  /\ FrameIdx

\* setInterval(() => this.scanForChanges(), 500) fires: the walk begins
PollTick ==
  /\ pollTimer
  /\ ~scan.active
  /\ LET evs == ScanEvents(Snapshot(files), knownFiles)
     IN /\ eventQueue' = EnqueueAll(eventQueue, evs)
        /\ debounceTimer' = ArmAll(debounceTimer, evs)
        /\ missedChanges' = missedChanges \ { evs[i].path : i \in 1..Len(evs) }
  /\ knownFiles' = Snapshot(files)
  /\ UNCHANGED <<isRunning, ready, pollTimer, scan, files, fsClock, deletedIndexed,
                 indexerVars, storeVars>>
  /\ FrameIdx

\* scanForChanges after its walk: enqueue what differs from knownFiles and
\* replace knownFiles.  The first scan is the 'ready' handler's: it then
\* sets pollTimer and resolves readyPromise, and indexAll begins its walk.
ScanApply ==
  /\ scan.active
  /\ LET evs == ScanEvents(scan.current, knownFiles)
     IN /\ eventQueue' = EnqueueAll(eventQueue, evs)
        /\ debounceTimer' = ArmAll(debounceTimer, evs)
        /\ missedChanges' = missedChanges \ { evs[i].path : i \in 1..Len(evs) }
  /\ knownFiles' = scan.current
  /\ scan' = NoScan
  /\ IF ready
       THEN UNCHANGED <<ready, pollTimer, run>>
       ELSE /\ ready' = TRUE
            /\ pollTimer' = TRUE
            /\ run' = [run EXCEPT !["all"] = [IdleRun EXCEPT !.pc = "walk"]]
  /\ UNCHANGED <<isRunning, files, fsClock, deletedIndexed, provider, errorLog, storeVars>>
  /\ FrameIdx

\* the debounce timer fires: processQueue takes the queue and starts on it
ProcessQueue(r) ==
  /\ debounceTimer > 0
  /\ run[r].pc = "idle"
  /\ debounceTimer' = debounceTimer - 1
  /\ eventQueue' = << >>
  /\ run' = [run EXCEPT ![r] = Dispatch(eventQueue)]
  /\ UNCHANGED <<isRunning, ready, pollTimer, knownFiles, scan, fsVars, provider,
                 errorLog, storeVars>>
  /\ FrameIdx

\* indexAll after its walk: knownFiles.set for every file found, then the
\* loop starts on the first file
IndexAllWalked ==
  /\ run["all"].pc = "walk"
  /\ knownFiles' = [p \in Paths |-> IF files[p].exists THEN files[p].mtime
                                     ELSE knownFiles[p]]
  /\ run' = [run EXCEPT !["all"] = Dispatch(AllFilesEvents(files))]
  /\ UNCHANGED <<isRunning, ready, pollTimer, debounceTimer, eventQueue, scan,
                 fsVars, provider, errorLog, storeVars>>
  /\ FrameIdx

\* processQueue after a handled add/change: fs.stat, then knownFiles.set or
\* knownFiles.delete
KnownStat(r) ==
  /\ run[r].pc = "kstat"
  /\ LET p == CurrentPath(r)
     IN knownFiles' = [knownFiles EXCEPT ![p] = IF files[p].exists
                                                  THEN files[p].mtime ELSE Unknown]
  /\ run' = [run EXCEPT ![r] = NextEvent(r)]
  /\ UNCHANGED <<isRunning, ready, pollTimer, debounceTimer, eventQueue, scan,
                 fsVars, provider, errorLog, storeVars>>
  /\ FrameIdx
(***************************************************************************)
(* Indexer.handleFileEvent: indexFile and deleteFile, step by step.        *)
(***************************************************************************)
\* indexFile from indexDocument on: one transaction, then the handler
\* returns or throws
StoreDocument(r, p, data, failAt) ==
  LET tx == indexDocument(Store, data, failAt)
  IN /\ nextDocId <= MaxDocId
     /\ SetStore(tx.store)
     /\ IF tx.ok
          THEN run' = [run EXCEPT ![r] = AfterIndexed(r)] /\ UNCHANGED errorLog
          ELSE AfterError(r, p)

\* readFile settles; the checksum is compared with the stored Document's
ReadResolves(r) ==
  /\ run[r].pc = "read"
  /\ LET p == CurrentPath(r)
     IN IF ~files[p].exists
          THEN AfterError(r, p) /\ UNCHANGED missedChanges
          ELSE /\ UNCHANGED errorLog
               /\ missedChanges' = missedChanges \ {p}
               /\ IF Unchanged(getDocumentByPath(Store, p), Checksum(files[p].content))
                    THEN run' = [run EXCEPT ![r] = AfterIndexed(r)]
                    ELSE run' = [run EXCEPT ![r].pc = "stat",
                                            ![r].content = files[p].content]
  /\ UNCHANGED <<watcherVars, files, fsClock, deletedIndexed, provider, storeVars>>
  /\ FrameIdx

\* fs.stat settles; the content is parsed and chunked; embed is called when
\* a provider is set and there are chunks, else the document is stored
\* without embeddings
StatResolves(r, failAt) ==
  /\ run[r].pc = "stat"
  /\ LET p == CurrentPath(r)
         c == run[r].content
     IN IF ~files[p].exists
          THEN AfterError(r, p) /\ UNCHANGED storeVars
          ELSE IF provider /\ Len(ChunksOf(c)) > 0
            THEN /\ failAt = 0
                 /\ run' = [run EXCEPT ![r].pc = "embed"]
                 /\ UNCHANGED <<errorLog, storeVars>>
            ELSE StoreDocument(r, p, DocData(p, c, NullEmbeddings(c), "none"), failAt)
  /\ UNCHANGED <<watcherVars, fsVars, provider>>
  /\ FrameIdx

\* provider.embed settles (ok) or rejects (~ok)
EmbedSettles(r, ok, failAt) ==
  /\ run[r].pc = "embed"
  /\ LET p == CurrentPath(r)
         c == run[r].content
         caught == OnEmbedError(c)
     IN IF ok
          THEN StoreDocument(r, p, DocData(p, c, EmbeddingsOf(c), "mock-model"), failAt)
          ELSE IF caught.proceed
            THEN StoreDocument(r, p, DocData(p, c, caught.embeddings,
                                             caught.embeddingModel), failAt)
            ELSE failAt = 0 /\ AfterError(r, p) /\ UNCHANGED storeVars
  /\ UNCHANGED <<watcherVars, fsVars, provider>>
  /\ FrameIdx

\* Indexer.deleteFile for an unlink event, then knownFiles.delete
Unlink(r) ==
  /\ run[r].pc = "unlink"
  /\ LET p == CurrentPath(r)
     IN /\ SetStore(deleteDocument(Store, p))
        /\ knownFiles' = [knownFiles EXCEPT ![p] = Unknown]
  /\ run' = [run EXCEPT ![r] = NextEvent(r)]
  /\ UNCHANGED <<isRunning, ready, pollTimer, debounceTimer, eventQueue, scan,
                 fsVars, provider, errorLog>>
  /\ FrameIdx
(***************************************************************************)
(* The LLM providers: OpenAIProvider (one fetch per call) and              *)
(* VercelAIProvider (one SDK call per chat, one per input of an embed).    *)
(***************************************************************************)
NoStatus == 0

NoError == [class |-> "none", provider |-> "none", status |-> NoStatus, message |-> << >>]

NoResponse == [ok |-> TRUE, status |-> NoStatus, text |-> "none"]

NoProviderCall == [impl |-> "none", name |-> "none", op |-> "none", inputs |-> 0, pc |-> "idle"]

\* what the underlying API answers to one request: an HTTP response, or the
\* rejection of the request (connection refused, timed out)
HttpResponse(status, text) == [ok |-> status \in 200..299, status |-> status, text |-> text]

Rejection(code) == [ok |-> FALSE, status |-> NoStatus, text |-> code]

Responses ==
  { HttpResponse(200, "OK"),
    HttpResponse(429, "Too Many Requests"),
    HttpResponse(500, "Internal Server Error"),
    HttpResponse(503, "Service Unavailable"),
    HttpResponse(400, "Bad Request"),
    HttpResponse(401, "Unauthorized"),
    Rejection("ECONNREFUSED"),
    Rejection("ETIMEDOUT") }

\* config.type of a VercelAIProvider with an embedding model of its own
ProviderTypes == {"openai", "ollama"}

\* new ProviderError(message, provider, code, status)
ProviderError(message, name, status) ==
  [class |-> "ProviderError", provider |-> name, status |-> status,
   message |-> <<message>>]

\* new Error(`${this.name} chat error: ${error.message}`)
Error(name, what, message) ==
  [class |-> "Error", provider |-> "none", status |-> NoStatus,
   message |-> <<name, what, message>>]

ProviderIdle ==
  /\ pvCall = NoProviderCall
  /\ pvRequests = 0
  /\ pvEmbeddings = 0
  /\ pvError = NoError
  /\ pvResponse = NoResponse

\* a call starts: its first request is sent
BeginCall(impl, name, op, n) ==
  /\ pvCall.pc \in {"idle", "returned", "thrown"}
  /\ pvCall' = [impl |-> impl, name |-> name, op |-> op, inputs |-> n, pc |-> "await"]
  /\ pvRequests' = 1
  /\ pvEmbeddings' = 0
  /\ pvError' = NoError
  /\ pvResponse' = NoResponse
  /\ FrameProvider

OpenAIProviderChat == BeginCall("OpenAIProvider", "openai", "chat", 1)

OpenAIProviderEmbed == \E n \in 1..MaxInputs : BeginCall("OpenAIProvider", "openai", "embed", n)

VercelAIProviderChat == \E name \in ProviderTypes : BeginCall("VercelAIProvider", name, "chat", 1)

VercelAIProviderEmbed ==
  \E name \in ProviderTypes, n \in 1..MaxInputs :
    BeginCall("VercelAIProvider", name, "embed", n)

\* OpenAIProvider.chat / embed after `await fetch(...)`: a response that is
\* not ok and a rejected fetch both throw a ProviderError; nothing is sent again
OpenAIProviderSettles(o) ==
  /\ pvCall.pc = "await"
  /\ pvCall.impl = "OpenAIProvider"
  /\ pvResponse' = o
  /\ IF o.ok
       THEN /\ pvCall' = [pvCall EXCEPT !.pc = "returned"]
            /\ pvEmbeddings' = IF pvCall.op = "embed" THEN pvCall.inputs ELSE 0
            /\ UNCHANGED pvError
       ELSE /\ pvCall' = [pvCall EXCEPT !.pc = "thrown"]
            /\ pvError' = ProviderError(o.text, pvCall.name, o.status)
            /\ UNCHANGED pvEmbeddings
  /\ UNCHANGED pvRequests
  /\ FrameProvider

\* VercelAIProvider.chat after `await generateText(...)`
VercelAIProviderChatSettles(o) ==
  /\ pvCall.pc = "await"
  /\ pvCall.impl = "VercelAIProvider"
  /\ pvCall.op = "chat"
  /\ pvResponse' = o
  /\ IF o.ok
       THEN /\ pvCall' = [pvCall EXCEPT !.pc = "returned"]
            /\ UNCHANGED pvError
       ELSE /\ pvCall' = [pvCall EXCEPT !.pc = "thrown"]
            /\ pvError' = Error(pvCall.name, "chat error", o.text)
  /\ UNCHANGED <<pvRequests, pvEmbeddings>>
  /\ FrameProvider

\* VercelAIProvider.embed after `await embed(...)` of one input: the next
\* input's request follows, or the call returns; a rejection ends the call
VercelAIProviderEmbedSettles(o) ==
  /\ pvCall.pc = "await"
  /\ pvCall.impl = "VercelAIProvider"
  /\ pvCall.op = "embed"
  /\ pvResponse' = o
  /\ IF o.ok
       THEN /\ pvEmbeddings' = pvEmbeddings + 1
            /\ IF pvEmbeddings + 1 = pvCall.inputs
                 THEN /\ pvCall' = [pvCall EXCEPT !.pc = "returned"]
                      /\ UNCHANGED pvRequests
                 ELSE /\ pvRequests' = pvRequests + 1
                      /\ UNCHANGED pvCall
            /\ UNCHANGED pvError
       ELSE /\ pvCall' = [pvCall EXCEPT !.pc = "thrown"]
            /\ pvError' = Error(pvCall.name, "embedding error", o.text)
            /\ UNCHANGED <<pvRequests, pvEmbeddings>>
  /\ FrameProvider
(***************************************************************************)
(* cosineSimilarity in the arithmetic of JavaScript numbers.  A number is  *)
(* [k, v]: a finite value v (k = "num"), an infinity of sign v (k = "inf") *)
(* or NaN.  A result beyond MAX_VALUE overflows to an infinity; rounding   *)
(* is left out.                                                            *)
(***************************************************************************)
Num(v) == [k |-> "num", v |-> v]

Infinity(sign) == [k |-> "inf", v |-> sign]

NaN == [k |-> "nan", v |-> 0]

Sign(v) == IF v < 0 THEN -1 ELSE 1

Overflow(v) ==
  IF v > MAX_VALUE THEN Infinity(1)
  ELSE IF v < -MAX_VALUE THEN Infinity(-1)
  ELSE Num(v)

\* x * y
FMul(x, y) ==
  IF x.k = "nan" \/ y.k = "nan" THEN NaN
  ELSE IF x.k = "inf" \/ y.k = "inf"
         THEN IF x.v = 0 \/ y.v = 0 THEN NaN ELSE Infinity(Sign(x.v) * Sign(y.v))
  ELSE Overflow(x.v * y.v)

\* x + y
FAdd(x, y) ==
  IF x.k = "nan" \/ y.k = "nan" THEN NaN
  ELSE IF x.k = "inf" /\ y.k = "inf" THEN IF x.v = y.v THEN x ELSE NaN
  ELSE IF x.k = "inf" THEN x
  ELSE IF y.k = "inf" THEN y
  ELSE Overflow(x.v + y.v)

\* the loop of cosineSimilarity for one accumulator: acc += a[i] * b[i]
RECURSIVE Accumulate(_, _, _, _)
Accumulate(a, b, i, acc) ==
  IF i > Len(a) THEN acc
  ELSE Accumulate(a, b, i + 1, FAdd(acc, FMul(Num(a[i]), Num(b[i]))))

\* Math.sqrt(normA) * Math.sqrt(normB), as the square of a finite value
Denominator(normA, normB) ==
  IF normA.k = "nan" \/ normB.k = "nan" THEN NaN
  ELSE IF normA.k = "inf" \/ normB.k = "inf"
         THEN IF normA.v = 0 \/ normB.v = 0 THEN NaN ELSE Infinity(1)
  ELSE [k |-> "sqrt", v |-> normA.v * normB.v]

\* what a call gives: [k, v, dot, den2], a finite score dot / sqrt(den2)
\* (k = "num"), an infinity of sign v, NaN, or the error thrown
Value(k, v) == [k |-> k, v |-> v, dot |-> 0, den2 |-> 1]

NoValue == Value("none", 0)

Throws == Value("throws", 0)

Score(s) == [k |-> "num", v |-> 0, dot |-> s.dot, den2 |-> s.den2]

Zero == Score([dot |-> 0, den2 |-> 1])

\* dotProduct / denominator, the denominator not 0
FDiv(a, b, dot, denominator) ==
  IF dot.k = "nan" \/ denominator.k = "nan" THEN Value("nan", 0)
  ELSE IF denominator.k = "inf"
         THEN IF dot.k = "inf" THEN Value("nan", 0) ELSE Zero
  ELSE IF dot.k = "inf" THEN Value("inf", dot.v)
  ELSE Score(cosineSimilarity(a, b))

\* cosineSimilarity(a, b): Throws, or the number returned
cosineSimilarityFloat(a, b) ==
  IF Len(a) # Len(b) THEN Throws
  ELSE LET dotProduct == Accumulate(a, b, 1, Num(0))
           normA == Accumulate(a, a, 1, Num(0))
           normB == Accumulate(b, b, 1, Num(0))
           denominator == Denominator(normA, normB)
       IN IF denominator.k = "sqrt" /\ denominator.v = 0 THEN Zero
          ELSE FDiv(a, b, dotProduct, denominator)

\* the vectors of the calls: finite numbers, MAX_VALUE among them
Components == {-1, 0, 1, 2, MAX_VALUE}

FloatVectors == UNION { [1..n -> Components] : n \in 0..MaxVecLen }

CosineIdle ==
  /\ simA = << >>
  /\ simB = << >>
  /\ simResult = NoValue

CosineSimilarityReturns ==
  /\ simResult = NoValue
  /\ simResult' = cosineSimilarityFloat(simA, simB)
  /\ UNCHANGED <<simA, simB>>
  /\ FrameCosine
(***************************************************************************)
(* parseMarkdown: the visitor of the tree's link nodes.  A url is a        *)
(* sequence of pieces (scheme, "://", leading "/", body, extension), so    *)
(* that endsWith, includes and the regular expressions of normalizePath    *)
(* are tests on pieces.                                                    *)
(***************************************************************************)
Extensions == {".md", ".png", ".com"}

LinkUrls ==
  { <<"b", ".md">>,
    <<"/", "notes/n">>,
    <<"img", ".png">>,
    <<"https", "://", "example", ".com">>,
    <<"https", "://", "example.com/readme", ".md">>,
    <<"/", "docs/guide", ".md">> }

\* url.endsWith('.md')
endsWith(url, suffix) == Len(url) > 0 /\ url[Len(url)] = suffix

\* url.includes('://')
includes(url, piece) == \E i \in 1..Len(url) : url[i] = piece

\* normalized.replace(/^\/+/, '')
RECURSIVE StripLeadingSlashes(_)
StripLeadingSlashes(p) ==
  IF p # << >> /\ Head(p) = "/" THEN StripLeadingSlashes(Tail(p)) ELSE p

normalizePath(rawPath) ==
  LET hasExtension == Len(rawPath) > 0 /\ rawPath[Len(rawPath)] \in Extensions
      normalized == IF ~hasExtension /\ ~endsWith(rawPath, ".md")
                      THEN Append(rawPath, ".md")
                      ELSE rawPath
  IN StripLeadingSlashes(normalized)

\* the visitor's condition: "only process local markdown links"
IsLocalLink(url) == endsWith(url, ".md") \/ ~includes(url, "://")

\* the Link pushed for a link node
MarkdownLink(node) ==
  [type |-> "markdown", target |-> normalizePath(node.url),
   text |-> IF node.text # << >> THEN node.text ELSE node.url]

LinkNodes == [url : LinkUrls, text : {<< >>, <<"label">>}]

LinkNodeSeqs == UNION { [1..n -> LinkNodes] : n \in 0..MaxLinks }

ParseIdle ==
  /\ mdNodes = << >>
  /\ mdVisited = 0
  /\ mdLinks = << >>

\* visit(tree, 'link', ...) called on the next link node
VisitLink ==
  /\ mdVisited < Len(mdNodes)
  /\ mdVisited' = mdVisited + 1
  /\ LET node == mdNodes[mdVisited + 1]
     IN mdLinks' = IF IsLocalLink(node.url)
                     THEN Append(mdLinks, MarkdownLink(node))
                     ELSE mdLinks
  /\ UNCHANGED mdNodes
  /\ FrameParse
(***************************************************************************)
(* chunkDocumentSemantic.  Only token counts are kept: a paragraph is the  *)
(* length of encoding.encode(paragraph), 0 exactly for the empty string;   *)
(* currentChunk is the sequence of the non-empty paragraphs joined in it,  *)
(* the empty sequence being the empty string.                              *)
(***************************************************************************)
SemChunk(index, tokenCount) == [index |-> index, tokenCount |-> tokenCount]

\* "if adding this paragraph would exceed chunk size" (and currentChunk is
\* not the empty string)
ExceedsNever(currentTokens, paragraphTokens, maxChunkSize, currentChunk) == FALSE

Exceeds(currentTokens, paragraphTokens, maxChunkSize, currentChunk) ==
  currentTokens + paragraphTokens > maxChunkSize /\ currentChunk # << >>

\* the fallback: for (i = 0; i < paragraphTokens.length; i += maxChunkSize)
RECURSIVE SplitParagraph(_, _, _, _, _)
SplitParagraph(out, index, i, paragraphTokens, maxChunkSize) ==
  IF i < paragraphTokens
    THEN SplitParagraph(
           Append(out, SemChunk(index, Min(i + maxChunkSize, paragraphTokens) - i)),
           index + 1, i + maxChunkSize, paragraphTokens, maxChunkSize)
    ELSE out

ParagraphSeqs == UNION { [1..n -> 0..MaxParagraphTokens] : n \in 1..MaxParagraphs }

SemanticIdle ==
  /\ scParagraphs = << >>
  /\ scMaxChunkSize = 0
  /\ scNext = 0
  /\ scChunks = << >>
  /\ scCurrentChunk = << >>
  /\ scCurrentTokens = 0
  /\ scIndex = 0
  /\ scPc = "idle"

\* the call up to the loop: content.split(/\n\n+/) has at least one element
SemanticInit ==
  /\ scParagraphs \in ParagraphSeqs
  /\ scMaxChunkSize \in 1..MaxSemanticSize
  /\ scNext = 1
  /\ scChunks = << >>
  /\ scCurrentChunk = << >>
  /\ scCurrentTokens = 0
  /\ scIndex = 0
  /\ scPc = "loop"

\* one iteration of `for (const paragraph of paragraphs)`
SemanticParagraph ==
  /\ scPc = "loop"
  /\ scNext <= Len(scParagraphs)
  /\ LET paragraphTokens == scParagraphs[scNext]
         flush == Exceeds(scCurrentTokens, paragraphTokens, scMaxChunkSize, scCurrentChunk)
         chunks1 == IF flush THEN Append(scChunks, SemChunk(scIndex, scCurrentTokens))
                    ELSE scChunks
         index1 == IF flush THEN scIndex + 1 ELSE scIndex
         currentChunk1 == IF flush THEN << >> ELSE scCurrentChunk
         currentTokens1 == IF flush THEN 0 ELSE scCurrentTokens
     IN IF paragraphTokens > scMaxChunkSize
          THEN /\ scChunks' = SplitParagraph(chunks1, index1, 0, paragraphTokens, scMaxChunkSize)
               /\ scIndex' = index1 + (Len(scChunks') - Len(chunks1))
               /\ scCurrentChunk' = currentChunk1
               /\ scCurrentTokens' = currentTokens1
          ELSE /\ scChunks' = chunks1
               /\ scIndex' = index1
               /\ scCurrentChunk' = IF paragraphTokens > 0
                                      THEN Append(currentChunk1, scNext)
                                      ELSE currentChunk1
               /\ scCurrentTokens' = currentTokens1 + paragraphTokens
  /\ scNext' = scNext + 1
  /\ UNCHANGED <<scParagraphs, scMaxChunkSize, scPc>>
  /\ FrameSemantic

\* after the loop: the final chunk, and the return
SemanticReturn ==
  /\ scPc = "loop"
  /\ scNext > Len(scParagraphs)
  /\ scChunks' = IF scCurrentChunk # << >>
                   THEN Append(scChunks, SemChunk(scIndex, scCurrentTokens))
                   ELSE scChunks
  /\ scIndex' = IF scCurrentChunk # << >> THEN scIndex + 1 ELSE scIndex
  /\ scPc' = "returned"
  /\ UNCHANGED <<scParagraphs, scMaxChunkSize, scNext, scCurrentChunk, scCurrentTokens>>
  /\ FrameSemantic
(***************************************************************************)
(* The lifecycle of a FileWatcher and of the Indexer that creates it.      *)
(* Every FileWatcher.start creates a chokidar watcher and a readyPromise,  *)
(* numbered 1, 2, ... per FileWatcher; 0 stands for null.                  *)
(***************************************************************************)
WatcherIds == 1..MaxWatchers

CallIds == 1..2

NewFileWatcher ==
  [constructed |-> TRUE,
   watcher |-> 0,        \* this.watcher: the chokidar watcher
   readyPromise |-> 0,   \* this.readyPromise / this.readyResolve
   resolved |-> {},      \* the readyPromises that are resolved
   emitted |-> {},       \* the chokidar watchers that have emitted 'ready'
   scanning |-> {},      \* the 'ready' handlers awaiting scanForChanges
   pollTimer |-> 0,      \* this.pollTimer: the interval of the handler of that watcher
   intervals |-> {},     \* the intervals that are set and not cleared
   starts |-> 0]

NotConstructed == [NewFileWatcher EXCEPT !.constructed = FALSE]

NoLifeCall == [op |-> "none", pc |-> "idle", w |-> 0, awaits |-> 0]

NoLast == [op |-> "none", w |-> 0, error |-> "none"]

\* FileWatcher.start, the watcher not running: the statements up to chokidar.watch
fwStart(fw) ==
  [fw EXCEPT !.starts = @ + 1, !.watcher = fw.starts + 1, !.readyPromise = fw.starts + 1]

\* FileWatcher.stop
fwStop(fw) ==
  [fw EXCEPT !.watcher = 0,
             !.pollTimer = 0,
             !.intervals = IF fw.pollTimer # 0 THEN @ \ {fw.pollTimer} ELSE @]

\* the 'ready' handler after `await this.scanForChanges()`: setInterval, readyResolve()
fwReadyHandled(fw, g) ==
  [fw EXCEPT !.scanning = @ \ {g},
             !.pollTimer = g,
             !.intervals = @ \cup {g},
             !.resolved = IF fw.readyPromise # 0 THEN @ \cup {fw.readyPromise} ELSE @]

\* the initial scan of chokidar watcher g has completed
InitialScanDone(fw, g) == g \in fw.emitted /\ g \notin fw.scanning

LifeIdle ==
  /\ lcWatchers = [w \in WatcherIds |-> NotConstructed]
  /\ lcCalls = [c \in CallIds |-> NoLifeCall]
  /\ lcLast = NoLast
  /\ lcRunning = FALSE
  /\ lcWatcher = 0
  /\ lcVault = FALSE

\* one FileWatcher constructed by a client
LifeOneWatcher ==
  /\ lcWatchers = [w \in WatcherIds |-> IF w = 1 THEN NewFileWatcher ELSE NotConstructed]
  /\ lcCalls = [c \in CallIds |-> NoLifeCall]
  /\ lcLast = NoLast
  /\ lcRunning = FALSE
  /\ lcWatcher = 0
  /\ lcVault = TRUE

\* an Indexer constructed on a vault path that exists or not
LifeIndexer ==
  /\ lcWatchers = [w \in WatcherIds |-> NotConstructed]
  /\ lcCalls = [c \in CallIds |-> NoLifeCall]
  /\ lcLast = NoLast
  /\ lcRunning = FALSE
  /\ lcWatcher = 0
  /\ lcVault \in BOOLEAN

\* FileWatcher.start called by the client
WatcherStart ==
  /\ lcWatchers[1].starts < MaxStarts
  /\ IF lcWatchers[1].watcher # 0
       THEN /\ lcLast' = [op |-> "start", w |-> 1, error |-> "Watcher is already running"]
            /\ UNCHANGED lcWatchers
       ELSE /\ lcLast' = [op |-> "start", w |-> 1, error |-> "none"]
            /\ lcWatchers' = [lcWatchers EXCEPT ![1] = fwStart(@)]
  /\ UNCHANGED <<lcCalls, lcRunning, lcWatcher, lcVault>>
  /\ FrameLife

\* FileWatcher.stop called by the client
WatcherStop ==
  /\ lcLast' = [op |-> "stop", w |-> 1, error |-> "none"]
  /\ lcWatchers' = [lcWatchers EXCEPT ![1] = fwStop(@)]
  /\ UNCHANGED <<lcCalls, lcRunning, lcWatcher, lcVault>>
  /\ FrameLife

\* FileWatcher.indexAll up to `await this.readyPromise`
indexAllCalled(c, op, w) ==
  IF lcWatchers[w].watcher = 0
    THEN /\ lcLast' = [op |-> "indexAll", w |-> w, error |-> "Watcher not started"]
         /\ lcCalls' = [lcCalls EXCEPT ![c] = NoLifeCall]
    ELSE /\ lcLast' = [op |-> "indexAll", w |-> w, error |-> "none"]
         /\ lcCalls' = [lcCalls EXCEPT ![c] =
                          [op |-> op, pc |-> "ready", w |-> w,
                           awaits |-> lcWatchers[w].readyPromise]]

\* FileWatcher.indexAll called by the client
WatcherIndexAll(c) ==
  /\ lcCalls[c].pc = "idle"
  /\ indexAllCalled(c, "indexAll", 1)
  /\ UNCHANGED <<lcWatchers, lcRunning, lcWatcher, lcVault>>
  /\ FrameLife

\* chokidar watcher g of FileWatcher w, not closed, emits 'ready': the
\* handler calls scanForChanges
ChokidarReady(w, g) ==
  /\ lcWatchers[w].watcher = g
  /\ g # 0
  /\ g \notin lcWatchers[w].emitted
  /\ lcWatchers' = [lcWatchers EXCEPT ![w].emitted = @ \cup {g},
                                      ![w].scanning = @ \cup {g}]
  /\ UNCHANGED <<lcCalls, lcLast, lcRunning, lcWatcher, lcVault>>
  /\ FrameLife

\* the scanForChanges of the 'ready' handler of chokidar watcher g settles
ReadyScanDone(w, g) ==
  /\ g \in lcWatchers[w].scanning
  /\ lcWatchers' = [lcWatchers EXCEPT ![w] = fwReadyHandled(@, g)]
  /\ UNCHANGED <<lcCalls, lcLast, lcRunning, lcWatcher, lcVault>>
  /\ FrameLife

\* the readyPromise an indexAll call awaits is resolved: the walk and the
\* indexing begin
IndexAllProceeds(c) ==
  /\ lcCalls[c].pc = "ready"
  /\ lcCalls[c].awaits = 0 \/ lcCalls[c].awaits \in lcWatchers[lcCalls[c].w].resolved
  /\ lcCalls' = [lcCalls EXCEPT ![c].pc = "indexing"]
  /\ UNCHANGED <<lcWatchers, lcLast, lcRunning, lcWatcher, lcVault>>
  /\ FrameLife

\* indexAll returns, and Indexer.start with it
IndexAllReturns(c) ==
  /\ lcCalls[c].pc = "indexing"
  /\ lcCalls' = [lcCalls EXCEPT ![c] = NoLifeCall]
  /\ UNCHANGED <<lcWatchers, lcLast, lcRunning, lcWatcher, lcVault>>
  /\ FrameLife

\* Indexer.start up to `await fs.access(this.vaultPath)`
IndexerStart(c) ==
  /\ lcCalls[c].pc = "idle"
  /\ IF lcRunning
       THEN /\ lcLast' = [op |-> "Indexer.start", w |-> 0, error |-> "none"]
            /\ UNCHANGED lcCalls
       ELSE /\ lcCalls' = [lcCalls EXCEPT ![c] =
                             [op |-> "Indexer.start", pc |-> "access", w |-> 0, awaits |-> 0]]
            /\ UNCHANGED lcLast
  /\ UNCHANGED <<lcWatchers, lcRunning, lcWatcher, lcVault>>
  /\ FrameLife

\* Indexer.start after fs.access: it throws, or sets isRunning, constructs
\* and starts a FileWatcher and calls its indexAll
IndexerStartAccessed(c) ==
  /\ lcCalls[c].pc = "access"
  /\ IF ~lcVault
       THEN /\ lcLast' = [op |-> "Indexer.start", w |-> 0, error |-> "Vault path does not exist"]
            /\ lcCalls' = [lcCalls EXCEPT ![c] = NoLifeCall]
            /\ UNCHANGED <<lcWatchers, lcRunning, lcWatcher>>
       ELSE \E w \in WatcherIds :
              /\ ~lcWatchers[w].constructed
              /\ \A v \in WatcherIds : v < w => lcWatchers[v].constructed
              /\ lcRunning' = TRUE
              /\ lcWatcher' = w
              /\ lcWatchers' = [lcWatchers EXCEPT ![w] = fwStart(NewFileWatcher)]
              /\ lcLast' = [op |-> "Indexer.start", w |-> w, error |-> "none"]
              /\ lcCalls' = [lcCalls EXCEPT ![c] =
                               [op |-> "Indexer.start", pc |-> "ready", w |-> w,
                                awaits |-> 1]]
  /\ UNCHANGED lcVault
  /\ FrameLife

\* Indexer.stop
IndexerStop ==
  /\ lcLast' = [op |-> "Indexer.stop", w |-> lcWatcher, error |-> "none"]
  /\ IF ~lcRunning
       THEN UNCHANGED <<lcWatchers, lcRunning, lcWatcher>>
       ELSE /\ lcWatchers' = IF lcWatcher # 0
                               THEN [lcWatchers EXCEPT ![lcWatcher] = fwStop(@)]
                               ELSE lcWatchers
            /\ lcWatcher' = 0
            /\ lcRunning' = FALSE
  /\ UNCHANGED <<lcCalls, lcVault>>
  /\ FrameLife
(***************************************************************************)
(* SpecProgress: the queue flushes of one FileWatcher and the progress     *)
(* events each of them reports: events are queued, processQueue takes the  *)
(* queue and handles the events one after the other, each handler          *)
(* returning or throwing.                                                  *)
(***************************************************************************)
ProgressPaths == {"a.md", "b.md", "c.md"}

ProgressTypes == {"change", "unlink"}

Undefined == "undefined"

\* an IndexProgress object
IndexProgress(phase, current, total, currentFile, error) ==
  [phase |-> phase, current |-> current, total |-> total,
   currentFile |-> currentFile, error |-> error]

\* if (this.onProgress) this.onProgress(progress)
report(log, progress) == IF pqOnProgress THEN Append(log, progress) ELSE log

ProgressIdle ==
  /\ pqQueue = << >>
  /\ pqOnProgress = FALSE
  /\ pqEvents = << >>
  /\ pqI = 0
  /\ pqPc = "idle"
  /\ pqLog = << >>

ProgressInit ==
  /\ pqQueue = << >>
  /\ pqOnProgress \in BOOLEAN
  /\ pqEvents = << >>
  /\ pqI = 0
  /\ pqPc = "idle"
  /\ pqLog = << >>

\* enqueueEvent while no flush is in progress
ProgressEnqueue ==
  /\ pqPc # "loop"
  /\ \E t \in ProgressTypes, p \in ProgressPaths :
       pqQueue' = enqueueEvent(pqQueue, Event(t, p))
  /\ UNCHANGED <<pqOnProgress, pqEvents, pqI, pqPc, pqLog>>
  /\ FrameProgress

\* processQueue up to its loop: nothing for an empty queue, else the queue
\* is taken and the first event reported
ProgressFlush ==
  /\ pqPc # "loop"
  /\ pqI' = 0
  /\ pqQueue' = << >>
  /\ pqEvents' = pqQueue
  /\ IF pqQueue = << >>
       THEN pqPc' = "returned" /\ pqLog' = << >>
       ELSE /\ pqPc' = "loop"
            /\ pqLog' = report(<< >>, IndexProgress("indexing", 0, Len(pqQueue),
                                                   Undefined, Undefined))
  /\ UNCHANGED pqOnProgress
  /\ FrameProgress

\* (an iteration that reports the loop variable itself)
ProgressHandleFromZero(ok) ==
  /\ pqPc = "loop"
  /\ pqI < Len(pqEvents)
  /\ LET event == pqEvents[pqI + 1]
     IN pqLog' = report(pqLog, IF ok
                   THEN IndexProgress("indexing", pqI, Len(pqEvents), event.path, Undefined)
                   ELSE IndexProgress("error", pqI, Len(pqEvents), event.path, "message"))
  /\ pqI' = pqI + 1
  /\ UNCHANGED <<pqQueue, pqOnProgress, pqEvents, pqPc>>
  /\ FrameProgress

\* one iteration of the loop: onEvent returns (ok) or throws, and the event
\* is reported with current = i + 1
ProgressHandle(ok) ==
  /\ pqPc = "loop"
  /\ pqI < Len(pqEvents)
  /\ LET event == pqEvents[pqI + 1]
     IN pqLog' = report(pqLog, IF ok
                   THEN IndexProgress("indexing", pqI + 1, Len(pqEvents), event.path, Undefined)
                   ELSE IndexProgress("error", pqI + 1, Len(pqEvents), event.path, "message"))
  /\ pqI' = pqI + 1
  /\ UNCHANGED <<pqQueue, pqOnProgress, pqEvents, pqPc>>
  /\ FrameProgress

\* after the loop: 'complete' is reported and processQueue returns
ProgressComplete ==
  /\ pqPc = "loop"
  /\ pqI >= Len(pqEvents)
  /\ pqLog' = report(pqLog, IndexProgress("complete", Len(pqEvents), Len(pqEvents),
                                          Undefined, Undefined))
  /\ pqPc' = "returned"
  /\ UNCHANGED <<pqQueue, pqOnProgress, pqEvents, pqI>>
  /\ FrameProgress
(***************************************************************************)
(* Specifications.                                                         *)
(***************************************************************************)
InitStore == StoreInit /\ QueryIdle /\ ChunkIdle /\ ToolsInit /\ AgentInit /\ ProviderIdle /\ CosineIdle /\ ParseIdle /\ SemanticIdle /\ LifeIdle /\ ProgressIdle /\ IdxIdle

NextStore ==
  \/ StoreIndexDocument \/ StoreDeleteDocument \/ StoreSearch \/ StoreSearchFiltered
  \/ StoreBacklinks

SpecStore == InitStore /\ [][NextStore]_vars

InitChunk == StoreInit /\ QueryIdle /\ ChunkInit /\ ToolsInit /\ AgentInit /\ ProviderIdle /\ CosineIdle /\ ParseIdle /\ SemanticIdle /\ LifeIdle /\ ProgressIdle /\ IdxIdle

NextChunk == ChunkIterate \/ ChunkReturn

SpecChunk == InitChunk /\ [][NextChunk]_vars

\* SpecChunkFair: SpecChunk, where the synchronous loop of chunkDocument runs
\* on: nothing can suspend it between two iterations
SpecChunkFair == SpecChunk /\ WF_vars(NextChunk)

InitTools == StoreInit /\ QueryIdle /\ ChunkIdle /\ ToolsInit /\ AgentInit /\ ProviderIdle /\ CosineIdle /\ ParseIdle /\ SemanticIdle /\ LifeIdle /\ ProgressIdle /\ IdxIdle

NextTools ==
  \/ ReadNoteCall \/ ReadNoteAttempt \/ WriteNoteCall \/ UpdateFrontmatterCall
  \/ VaultFileChanges \/ ExecuteNoTool

SpecTools == InitTools /\ [][NextTools]_vars

InitAgent == StoreInit /\ QueryIdle /\ ChunkIdle /\ ToolsInit /\ AgentInit /\ ProviderIdle /\ CosineIdle /\ ParseIdle /\ SemanticIdle /\ LifeIdle /\ ProgressIdle /\ IdxIdle

NextAgent ==
  \/ AgentStart \/ AgentChatResponds \/ AgentChatFails
  \/ AgentToolReturns \/ AgentToolThrows

SpecAgent == InitAgent /\ [][NextAgent]_vars

InitProvider == StoreInit /\ QueryIdle /\ ChunkIdle /\ ToolsInit /\ AgentInit /\ ProviderIdle /\ CosineIdle /\ ParseIdle /\ SemanticIdle /\ LifeIdle /\ ProgressIdle /\ IdxIdle

NextProvider ==
  \/ OpenAIProviderChat \/ OpenAIProviderEmbed
  \/ VercelAIProviderChat \/ VercelAIProviderEmbed
  \/ \E o \in Responses :
       \/ OpenAIProviderSettles(o)
       \/ VercelAIProviderChatSettles(o)
       \/ VercelAIProviderEmbedSettles(o)

SpecProvider == InitProvider /\ [][NextProvider]_vars

\* SpecCosine: cosineSimilarity is called on any two vectors
InitCosine ==
  /\ StoreInit /\ QueryIdle /\ ChunkIdle /\ ToolsInit /\ AgentInit /\ ProviderIdle /\ ParseIdle /\ SemanticIdle /\ LifeIdle /\ ProgressIdle /\ IdxIdle
  /\ simA \in FloatVectors
  /\ simB \in FloatVectors
  /\ simResult = NoValue

NextCosine == CosineSimilarityReturns

SpecCosine == InitCosine /\ [][NextCosine]_vars

\* SpecParse: parseMarkdown visits the link nodes of any note
InitParse ==
  /\ StoreInit /\ QueryIdle /\ ChunkIdle /\ ToolsInit /\ AgentInit /\ ProviderIdle /\ CosineIdle /\ SemanticIdle /\ LifeIdle /\ ProgressIdle /\ IdxIdle
  /\ mdNodes \in LinkNodeSeqs
  /\ mdVisited = 0
  /\ mdLinks = << >>

NextParse == VisitLink

SpecParse == InitParse /\ [][NextParse]_vars

\* SpecSemantic: chunkDocumentSemantic is called on any content
InitSemantic ==
  /\ StoreInit /\ QueryIdle /\ ChunkIdle /\ ToolsInit /\ AgentInit /\ ProviderIdle /\ CosineIdle /\ ParseIdle /\ LifeIdle /\ ProgressIdle /\ IdxIdle
  /\ SemanticInit

NextSemantic == SemanticParagraph \/ SemanticReturn

SpecSemantic == InitSemantic /\ [][NextSemantic]_vars

OthersIdle ==
  /\ StoreInit /\ QueryIdle /\ ChunkIdle /\ ToolsInit /\ AgentInit /\ ProviderIdle
  /\ CosineIdle /\ ParseIdle /\ SemanticIdle /\ ProgressIdle /\ IdxIdle

\* the 'ready' handlers of the chokidar watchers and the awaits of indexAll
WatcherInternals ==
  \/ \E w \in WatcherIds, g \in 1..MaxStarts : ChokidarReady(w, g) \/ ReadyScanDone(w, g)
  \/ \E c \in CallIds : IndexAllProceeds(c) \/ IndexAllReturns(c)

\* SpecWatcherLife: a client starts, stops and calls indexAll on one FileWatcher
InitWatcherLife == OthersIdle /\ LifeOneWatcher

NextWatcherLife ==
  \/ WatcherStart \/ WatcherStop
  \/ \E c \in CallIds : WatcherIndexAll(c)
  \/ WatcherInternals

SpecWatcherLife == InitWatcherLife /\ [][NextWatcherLife]_vars

\* SpecIndexerLife: the IPC handlers call Indexer.start and Indexer.stop
InitIndexerLife == OthersIdle /\ LifeIndexer

NextIndexerLife ==
  \/ \E c \in CallIds : IndexerStart(c) \/ IndexerStartAccessed(c)
  \/ IndexerStop
  \/ WatcherInternals

SpecIndexerLife == InitIndexerLife /\ [][NextIndexerLife]_vars


Init == StoreInit /\ QueryIdle /\ ChunkIdle /\ ToolsInit /\ AgentInit /\ ProviderIdle /\ CosineIdle /\ ParseIdle /\ SemanticIdle /\ LifeIdle /\ ProgressIdle /\ IdxInit

\* the vault's changes, the Watcher, and the steps of a run up to the stat
\* in indexFile
WatcherNext ==
  \/ FsWrite \/ FsDelete
  \/ Start \/ Stop \/ PollTick \/ ScanApply \/ IndexAllWalked
  \/ \E r \in SerialRuns : ProcessQueue(r) \/ KnownStat(r) \/ Unlink(r)
  \/ \E r \in SerialRuns \cup {"all"} : ReadResolves(r)

\* Spec: the embedding provider may fail, the database does not; the calls
\* of processQueue follow one another
Next ==
  \/ WatcherNext
  \/ \E r \in SerialRuns \cup {"all"} : StatResolves(r, 0)
  \/ \E r \in SerialRuns \cup {"all"}, ok \in BOOLEAN : EmbedSettles(r, ok, 0)

Spec == Init /\ [][Next]_vars

\* SpecDbFaults: a statement of indexDocument's transaction may throw, the
\* embedding provider does not fail
NextDbFaults ==
  \/ WatcherNext
  \/ \E r \in SerialRuns \cup {"all"}, failAt \in FailPoints : StatResolves(r, failAt)
  \/ \E r \in SerialRuns \cup {"all"}, failAt \in FailPoints : EmbedSettles(r, TRUE, failAt)

InitDbFaults == Init /\ provider

SpecDbFaults == InitDbFaults /\ [][NextDbFaults]_vars

\* SpecOverlap: the watcher after Indexer.start has returned on the initial
\* vault (both notes indexed by indexAll, the start's events flushed), with
\* a provider; a timeout that fires while a processQueue call is awaiting
\* starts a second call
IndexedVault ==
  indexDocument(indexDocument(EmptyStore,
                              DocData("a.md", "c1", EmbeddingsOf("c1"), "mock-model"), 0).store,
                DocData("b.md", "c2", EmbeddingsOf("c2"), "mock-model"), 0).store

InitWatching ==
  /\ files = InitialVault
  /\ fsClock = 0
  /\ deletedIndexed = {}
  /\ missedChanges = {}
  /\ provider = TRUE
  /\ isRunning = "running"
  /\ ready = TRUE
  /\ pollTimer = TRUE
  /\ debounceTimer = 0
  /\ eventQueue = << >>
  /\ knownFiles = Snapshot(InitialVault)
  /\ scan = NoScan
  /\ run = [r \in RunIds |-> IdleRun]
  /\ errorLog = {}
  /\ documents = IndexedVault.documents
  /\ chunks = IndexedVault.chunks
  /\ links = IndexedVault.links
  /\ nextDocId = IndexedVault.nextDocId

InitOverlap == InitWatching /\ QueryIdle /\ ChunkIdle /\ ToolsInit /\ AgentInit /\ ProviderIdle /\ CosineIdle /\ ParseIdle /\ SemanticIdle /\ LifeIdle /\ ProgressIdle

DebounceFires == \E r \in QueueRuns : ProcessQueue(r)

QueueRunStep ==
  \E r \in QueueRuns :
    \/ KnownStat(r) \/ Unlink(r) \/ ReadResolves(r) \/ StatResolves(r, 0)
    \/ \E ok \in BOOLEAN : EmbedSettles(r, ok, 0)

NextOverlap ==
  \/ FsWrite \/ FsDelete \/ Stop \/ PollTick
  \/ DebounceFires
  \/ QueueRunStep

SpecOverlap == InitOverlap /\ [][NextOverlap]_vars

\* SpecFair: SpecOverlap, where an armed timeout fires and the file system,
\* the provider and the database answer the awaits of a processQueue call.
\* A step of a call is enabled exactly while a call is in progress and not
\* held at the bound of the document ids (RunBusyEnables), so RunsProceed is
\* the weak fairness of QueueRunStep.
AtDocIdBound(r) ==
  /\ nextDocId > MaxDocId
  /\ \/ run[r].pc = "embed"
     \/ /\ run[r].pc = "stat"
        /\ files[CurrentPath(r)].exists
        /\ ~(provider /\ Len(ChunksOf(run[r].content)) > 0)

RunBusy == \E r \in QueueRuns : run[r].pc # "idle" /\ ~AtDocIdBound(r)

RunBusyEnables == RunBusy <=> ENABLED <<QueueRunStep>>_vars

RunsProceed == []<>(~RunBusy) \/ []<><<QueueRunStep>>_vars

SpecFair == SpecOverlap /\ WF_vars(DebounceFires) /\ RunsProceed

InitProgress ==
  /\ StoreInit /\ QueryIdle /\ ChunkIdle /\ ToolsInit /\ AgentInit /\ ProviderIdle
  /\ CosineIdle /\ ParseIdle /\ SemanticIdle /\ LifeIdle /\ IdxIdle
  /\ ProgressInit

NextProgress ==
  \/ ProgressEnqueue \/ ProgressFlush
  \/ \E ok \in BOOLEAN : ProgressHandle(ok)
  \/ ProgressComplete

SpecProgress == InitProgress /\ [][NextProgress]_vars

(***************************************************************************)
(* C1 -- Indexing idempotence: when indexFile has read a file whose        *)
(* content has the checksum of the Document stored for that path, it       *)
(* returns at once: the Document, Chunk and Link rows are left unchanged,  *)
(* embed is not called, and the run goes on as after any handled event.    *)
(***************************************************************************)
StoredChecksumIs(p, c) ==
  \E d \in documents : d.path = p /\ d.checksum = Checksum(c)

IndexingIdempotence ==
  [][\A r \in RunIds :
       (/\ run[r].pc = "read"
        /\ run'[r] # run[r]
        /\ files[CurrentPath(r)].exists
        /\ StoredChecksumIs(CurrentPath(r), files[CurrentPath(r)].content))
       => /\ UNCHANGED storeVars
          /\ \A q \in RunIds : run'[q].pc = "embed" => run[q].pc = "embed"
          /\ run'[r] = AfterIndexed(r)
          /\ errorLog' = errorLog]_vars

\* a.md was stored once and both the queue run and indexAll handled it:
\* one of the two found it unchanged
IndexingIdempotenceWitness ==
  /\ nextDocId = 2
  /\ errorLog = {}
  /\ files["a.md"].exists
  /\ StoredChecksumIs("a.md", files["a.md"].content)
  /\ run["queue"].pc = "kstat" /\ CurrentPath("queue") = "a.md"
  /\ run["all"].pc = "read" /\ CurrentPath("all") = "b.md"

(***************************************************************************)
(* C11 -- Watcher stop: once stop() has returned, neither the debounce     *)
(* timer nor the poll timer is armed and the event queue is empty, also    *)
(* when stop() was called while the 'ready' handler, a scan or a queue     *)
(* flush was in progress.                                                  *)
(***************************************************************************)
WatcherStopReleases ==
  isRunning = "stopped" => /\ ~pollTimer
                           /\ debounceTimer = 0
                           /\ eventQueue = << >>

(***************************************************************************)
(* C12 -- Full reindex is safe while watching: the store holds at most one *)
(* Document per path, and a file whose content did not change is not       *)
(* embedded twice: indexAll and a queue flush never both have an embed     *)
(* call in flight for the same path with the same content.                 *)
(***************************************************************************)
OneDocumentPerPath ==
  \A d1, d2 \in documents : d1.path = d2.path => d1 = d2

ReindexEmbedsOnce ==
  /\ OneDocumentPerPath
  /\ \A r1, r2 \in RunIds :
       (/\ r1 # r2
        /\ run[r1].pc = "embed"
        /\ run[r2].pc = "embed"
        /\ CurrentPath(r1) = CurrentPath(r2))
       => run[r1].content # run[r2].content

(***************************************************************************)
(* C13 -- write_note: when a write_note call has succeeded, the written    *)
(* path is queued for re-indexing: the Watcher's queue holds an event and  *)
(* its debounce timer is armed.                                            *)
(***************************************************************************)
WriteNoteReindexes ==
  (tcall.tool = "write_note" /\ tcall.status = "ok") =>
    /\ eventQueue # << >>
    /\ debounceTimer > 0

(***************************************************************************)
(* C14 -- update_frontmatter: after a successful update_frontmatter(path,  *)
(* updates) the note's frontmatter is the previous frontmatter overridden  *)
(* key by key with updates, and the note's body is what it was.            *)
(***************************************************************************)
FrontmatterMerged(before, updates, after) ==
  \A k \in FmKeys :
    /\ HasKey(after, k) <=> (HasKey(before, k) \/ HasKey(updates, k))
    /\ HasKey(after, k) =>
         ValueOf(after, k) = IF HasKey(updates, k) THEN ValueOf(updates, k)
                             ELSE ValueOf(before, k)

UpdateFrontmatterKeepsBody ==
  [][\A r \in RequestedPaths, updates \in FmUpdates :
       (updateFrontmatter(r, updates) /\ tcall'.status = "ok")
       => LET fullPath == Validated[r].fullPath
              before == matter(tfiles[fullPath])
              after == matter(tfiles'[fullPath])
          IN /\ FrontmatterMerged(before.data, updates, after.data)
             /\ after.content = before.content]_vars

(***************************************************************************)
(* C15 -- Missing note: a read_note call for a path in the vault at which  *)
(* no file exists ends with 'Note not found' after a single read: the read *)
(* is not retried.                                                         *)
(***************************************************************************)
MissingNoteNotRetried ==
  (tcall.tool = "read_note" /\ tcall.status = "Note not found") => tattempt = 0

(***************************************************************************)
(* C16 -- Error isolation per file: when the handling of a file fails in a *)
(* queue flush or in a full-vault pass (the file cannot be read), a        *)
(* progress event of phase 'error' naming the path is reported and the run *)
(* goes on with its next file.                                             *)
(***************************************************************************)
ErrorIsolation ==
  [][\A r \in RunIds :
       (/\ run'[r] # run[r]
        /\ run[r].pc \in {"read", "stat"}
        /\ ~files[CurrentPath(r)].exists)
       => /\ CurrentPath(r) \in errorLog'
          /\ run'[r] = NextEvent(r)]_vars

(***************************************************************************)
(* C17 -- list_backlinks(p) returns the Documents whose Links target p:    *)
(* the source_path of every returned entry is the path of a Document in    *)
(* the store, and every Link with target p whose source is a stored        *)
(* Document gives exactly one entry, with that Document's title.           *)
(***************************************************************************)
BacklinksAreDocuments ==
  backlinks.called =>
    /\ \A e \in backlinks.rows : \E d \in documents : d.path = e.source_path
    /\ \A l \in links, d \in documents :
         (l.target_path = backlinks.path /\ l.source_path = d.path)
         => { e \in backlinks.rows : /\ e.source_path = l.source_path
                                     /\ e.link_type = l.link_type } =
            { BacklinkRow(l, d.title) }

(***************************************************************************)
(* C18 -- Link uniqueness: in every reachable state of the store no two    *)
(* Link rows have the same (source_path, target_path, link_type); the      *)
(* occurrences of one logical link in a document are stored as one row.    *)
(***************************************************************************)
SameEdge(l1, l2) ==
  /\ l1.source_path = l2.source_path
  /\ l1.target_path = l2.target_path
  /\ l1.link_type = l2.link_type

LinkUniqueness == \A l1, l2 \in links : SameEdge(l1, l2) => l1 = l2

\* b.md was indexed, then indexed again with a text that has the wikilink to
\* a.md twice, with two link texts: one row, carrying the first text
LinkUniquenessWitness ==
  /\ nextDocId = 3
  /\ \E d \in documents : d.path = "b.md" /\ d.id = 2 /\ d.checksum = Checksum("c2")
  /\ Len(SelectSeq(LinksOf("c2"), LAMBDA k : k.target = "a.md" /\ k.type = "wikilink")) = 2
  /\ { l \in links : l.source_path = "b.md" /\ l.target_path = "a.md" } =
       { [source_path |-> "b.md", target_path |-> "a.md", link_type |-> "wikilink",
          link_text |-> "a"] }

(***************************************************************************)
(* C19 -- Embedding presence invariant: in every reachable state every     *)
(* stored Chunk has an embedding vector and an embedding_model, or neither *)
(* of them; the placeholder model 'none' is never stored.                  *)
(***************************************************************************)
EmbeddingPresence ==
  \A i \in 1..Len(chunks) :
    /\ chunks[i].embedding.null <=> chunks[i].embedding_model = Null
    /\ chunks[i].embedding_model # "none"

\* a.md was stored after its embed call was rejected, b.md after its embed
\* call resolved
EmbeddingPresenceWitness ==
  /\ \E d \in documents :
       /\ d.path = "a.md"
       /\ \E i \in 1..Len(chunks) : chunks[i].document_id = d.id
       /\ \A i \in 1..Len(chunks) :
            chunks[i].document_id = d.id => chunks[i].embedding.null
  /\ \E d \in documents :
       /\ d.path = "b.md"
       /\ \E i \in 1..Len(chunks) : chunks[i].document_id = d.id
       /\ \A i \in 1..Len(chunks) :
            chunks[i].document_id = d.id
            => ~chunks[i].embedding.null /\ chunks[i].embedding_model = "mock-model"
  /\ provider
(***************************************************************************)
(* C2 - Path sandboxing: a read_note, write_note or update_frontmatter     *)
(* call whose path, resolved against the vault root, lies outside the      *)
(* vault root is rejected with 'Invalid path' and performs no filesystem   *)
(* read, write or mkdir.                                                   *)
(***************************************************************************)
PathSandboxing ==
  (tcall.tool # "none" /\ Validated[tcall.path].fullPath \notin VaultFiles) =>
    /\ tcall.status = "Invalid path"
    /\ tfsOps = {}


(***************************************************************************)
(* C20 -- Chunk index contiguity: for every Document in the store the      *)
(* chunk_index values of its Chunks are exactly 0..n-1, with no gap and no *)
(* duplicate, also when a small trailing window was merged into the chunk  *)
(* before it.                                                              *)
(***************************************************************************)
ChunksOfDocument(d) == SelectSeq(chunks, LAMBDA c : c.document_id = d.id)

ChunkIndexContiguity ==
  \A d \in documents :
    LET rows == ChunksOfDocument(d)
    IN { rows[j].chunk_index : j \in 1..Len(rows) } = 0..(Len(rows) - 1)

\* a.md indexed again with a text of 1380 tokens: windows at 0, 450, 900 and
\* 1350, the last one (30 tokens) merged into the third chunk
ChunkIndexContiguityWitness ==
  /\ nextDocId > 2
  /\ \E d \in documents :
       /\ d.path = "a.md"
       /\ d.id > 1
       /\ d.checksum = Checksum("c3")
       /\ Len(ChunksOfDocument(d)) = 3
       /\ ChunksOfDocument(d)[3].chunk_index = 2
       /\ ChunksOfDocument(d)[3].token_count = 510

OncePerPath(q) == \A i, j \in 1..Len(q) : q[i].path = q[j].path => i = j

QueueHolds(q, ev) == \A i \in 1..Len(q) : q[i].path = ev.path => q[i] = ev

Enqueued(q, ev) == QueueHolds(q, ev) /\ \E i \in 1..Len(q) : q[i] = ev

QueueCoalesced ==
  /\ OncePerPath(eventQueue)
  /\ \A r \in QueueRuns : OncePerPath(run[r].todo)

LastEventWins ==
  /\ []QueueCoalesced
  /\ [][/\ \A p \in EditedPaths, c \in EditedContents :
            fsWrite(p, c, TRUE)
            => Enqueued(eventQueue', Event(IF files[p].exists THEN "change" ELSE "add", p))
        /\ \A p \in EditedPaths :
            (fsDelete(p, TRUE) /\ isRunning = "running")
            => Enqueued(eventQueue', Event("unlink", p))
        /\ PollTick
            => LET evs == ScanEvents(Snapshot(files), knownFiles)
               IN \A i \in 1..Len(evs) : Enqueued(eventQueue', evs[i])
        /\ ScanApply
            => LET evs == ScanEvents(scan.current, knownFiles)
               IN \A i \in 1..Len(evs) : Enqueued(eventQueue', evs[i])]_vars

\* the 'add' of a.md queued at start was overwritten, in its place, by the
\* 'unlink' of a.md
LastEventWinsWitness ==
  /\ eventQueue = <<Event("unlink", "a.md"), Event("add", "b.md")>>
  /\ ~files["a.md"].exists
  /\ debounceTimer = 1

(***************************************************************************)
(* C23 -- Debounce.  A timeout fires no sooner than its delay after it was *)
(* armed, so a flush comes a full delay after the most recent enqueue      *)
(* exactly when the timeout that fires is the one that enqueue armed.      *)
(* At most one timeout that calls processQueue is armed in every reachable *)
(* state, and one is armed whenever the queue is not empty; every step     *)
(* that enqueues leaves exactly one armed, the one it armed itself; a      *)
(* flush is the firing of that only timeout and takes the whole queue; and *)
(* under SpecFair a non-empty queue is eventually emptied (flushed, or     *)
(* cleared by stop).                                                       *)
(***************************************************************************)
OneDebounceTimer ==
  /\ debounceTimer \in {0, 1}
  /\ eventQueue # << >> => debounceTimer = 1

EnqueueStep ==
  \/ \E p \in EditedPaths, c \in EditedContents : fsWrite(p, c, TRUE)
  \/ \E p \in EditedPaths : fsDelete(p, TRUE) /\ isRunning = "running"
  \/ Start /\ AllFilesEvents(files) # << >>
  \/ PollTick /\ ScanEvents(Snapshot(files), knownFiles) # << >>
  \/ ScanApply /\ ScanEvents(scan.current, knownFiles) # << >>

DebounceFlushes == (eventQueue # << >>) ~> (eventQueue = << >>)

Debounce ==
  /\ []OneDebounceTimer
  /\ [][/\ EnqueueStep => debounceTimer' = 1 /\ eventQueue' # << >>
        /\ DebounceFires => debounceTimer = 1 /\ debounceTimer' = 0
                            /\ eventQueue' = << >>
                            /\ \E r \in QueueRuns : run'[r].todo = eventQueue
        /\ eventQueue' = << >> /\ eventQueue # << >> => DebounceFires \/ Stop]_vars
  /\ DebounceFlushes

\* the timeout fired and a processQueue call took the batch; a scan then
\* enqueued the path again and armed a new timeout
DebounceWitness ==
  /\ run["queue"].pc = "read"
  /\ run["queue"].todo = <<Event("change", "a.md")>>
  /\ eventQueue = <<Event("change", "a.md")>>
  /\ debounceTimer = 1
  /\ isRunning = "running"

(***************************************************************************)
(* C24 -- Same-path ordering: a batch hands each path to the Indexer at    *)
(* most once, and an event for a path is not handled while an earlier      *)
(* event for that path, of an earlier batch, is still being handled: no    *)
(* two processQueue calls are inside the handler of events for the same    *)
(* path at the same time.                                                  *)
(***************************************************************************)
Handling(r) == run[r].pc \in {"read", "stat", "embed", "unlink"}

SamePathOrdering ==
  /\ \A r \in QueueRuns : OncePerPath(run[r].todo)
  /\ \A r1, r2 \in QueueRuns :
       (r1 # r2 /\ Handling(r1) /\ Handling(r2)) => CurrentPath(r1) # CurrentPath(r2)

(***************************************************************************)
(* C25 -- Reconciliation scan: a scan enqueues 'add' for every file it     *)
(* finds that is not remembered, 'change' for every remembered file whose  *)
(* modification time differs and 'unlink' for every remembered path it     *)
(* does not find, and then remembers what it found; and a path changed     *)
(* with no native event, for which no event is pending, is enqueued by the *)
(* scan that runs next.                                                    *)
(***************************************************************************)
ScanEnqueues(current, known) ==
  \A p \in Paths :
    /\ (current[p] # Unknown /\ known[p] = Unknown) => Enqueued(eventQueue', Event("add", p))
    /\ (current[p] # Unknown /\ known[p] # Unknown /\ known[p] # current[p])
         => Enqueued(eventQueue', Event("change", p))
    /\ (current[p] = Unknown /\ known[p] # Unknown) => Enqueued(eventQueue', Event("unlink", p))

\* an event for p is queued, or waits in a batch or in indexAll's list for a
\* handler that has not read the file yet
EventPending(p) ==
  \/ \E i \in 1..Len(eventQueue) : eventQueue[i].path = p
  \/ run["all"].pc = "walk"
  \/ \E r \in RunIds :
       \/ \E i \in 2..Len(run[r].todo) : run[r].todo[i].path = p
       \/ run[r].pc \in {"read", "unlink"} /\ CurrentPath(r) = p

\* the scan that would run now enqueues every missed change that no pending
\* event covers
NextScanEnqueuesMissed ==
  (pollTimer /\ ~scan.active)
  => LET evs == ScanEvents(Snapshot(files), knownFiles)
     IN \A p \in missedChanges :
          EventPending(p) \/ \E i \in 1..Len(evs) : evs[i].path = p

ScanReconciles ==
  /\ []NextScanEnqueuesMissed
  /\ [][PollTick => /\ ScanEnqueues(Snapshot(files), knownFiles)
                    /\ knownFiles' = Snapshot(files)
                    /\ \A p \in missedChanges' : EventPending(p)']_vars

(***************************************************************************)
(* C26 -- Link replacement and frame: when indexDocument commits for path  *)
(* p from a reachable store, the Links with source p are then one row for  *)
(* each distinct (target, type) pair of the links parsed from the new      *)
(* content and no other row, and the Documents, Chunks and Links of every  *)
(* other path are what they were.                                          *)
(***************************************************************************)
LinksFrom(rows, p) == { l \in rows : l.source_path = p }

PairsOf(c) == { <<LinksOf(c)[i].target, LinksOf(c)[i].type>> : i \in 1..Len(LinksOf(c)) }

OtherDocuments(docs, p) == { d \in docs : d.path # p }

OtherChunks(docs, chks, p) ==
  SelectSeq(chks, LAMBDA ch : \E d \in OtherDocuments(docs, p) : d.id = ch.document_id)

LinkReplacement ==
  \A p \in Paths, c \in Contents, withEmb \in BOOLEAN :
    nextDocId <= MaxDocId
    => LET after == indexDocument(Store, IndexData(p, c, withEmb), 0).store
       IN /\ { <<l.target_path, l.link_type>> : l \in LinksFrom(after.links, p) } = PairsOf(c)
          /\ \A l1, l2 \in LinksFrom(after.links, p) :
               (l1.target_path = l2.target_path /\ l1.link_type = l2.link_type) => l1 = l2
          /\ after.links \ LinksFrom(after.links, p) = links \ LinksFrom(links, p)
          /\ OtherDocuments(after.documents, p) = OtherDocuments(documents, p)
          /\ OtherChunks(after.documents, after.chunks, p) = OtherChunks(documents, chunks, p)

\* a.md was indexed with c2 (links to a.md and x.png) and re-indexed with c3
\* (links to b.md and z.md), beside b.md and its links
LinkReplacementWitness ==
  /\ \E d \in documents : d.path = "a.md" /\ d.checksum = Checksum("c3") /\ d.id = 3
  /\ \E d \in documents : d.path = "b.md" /\ d.checksum = Checksum("c2") /\ d.id = 2
  /\ { <<l.target_path, l.link_type>> : l \in LinksFrom(links, "a.md") } =
       { <<"b.md", "markdown">>, <<"z.md", "wikilink">> }
  /\ LinksFrom(links, "b.md") # {}

(***************************************************************************)
(* C27 -- Search candidates and floor: every result of searchNotesByVector *)
(* comes from a Chunk with a non-null embedding whose Document has, among  *)
(* the tags of its frontmatter, every requested tag, and has a score at or *)
(* above MIN_SIMILARITY_SCORE; results with equal scores are in the order  *)
(* in which their chunks were inserted.                                    *)
(***************************************************************************)
\* the Document and the position in the chunks table of the chunk behind a result
DocOfResult(r) == CHOOSE d \in documents : d.path = r.path

RowOfResult(r) ==
  CHOOSE i \in 1..Len(chunks) : /\ chunks[i].document_id = DocOfResult(r).id
                                /\ chunks[i].chunk_index = r.chunk_index

\* the tags of the content a Document row was stored from
TagsOfDocument(d) ==
  LET c == CHOOSE c2 \in Contents : Checksum(c2) = d.checksum
  IN { FrontmatterOf(c)[i] : i \in 1..Len(FrontmatterOf(c)) }

SearchCandidatesFloor ==
  searchResult.status = "ok" =>
    LET rs == searchResult.results
    IN /\ \A i \in 1..Len(rs) :
            /\ ~chunks[RowOfResult(rs[i])].embedding.null
            /\ \A j \in 1..Len(searchResult.filter.tags) :
                 searchResult.filter.tags[j] \in TagsOfDocument(DocOfResult(rs[i]))
            /\ ScoreGE(rs[i].score, MIN_SIMILARITY_SCORE)
       /\ \A i, j \in 1..Len(rs) :
            (i < j /\ ScoreGE(rs[i].score, rs[j].score) /\ ScoreGE(rs[j].score, rs[i].score))
            => RowOfResult(rs[i]) < RowOfResult(rs[j])
(***************************************************************************)
(* C28: provider retry policy.                                             *)
(***************************************************************************)
\* rate limit, 5xx, connection refused or timed out
Transient(o) ==
  \/ o.status = 429
  \/ o.status \in 500..599
  \/ o.text \in {"ECONNREFUSED", "ETIMEDOUT"}

Persistent(o) == ~o.ok /\ ~Transient(o)

\* how many times the request that failed was sent
AttemptsOfRequest == pvRequests - pvEmbeddings

NamesProvider(e, name) ==
  e.provider = name \/ \E i \in 1..Len(e.message) : e.message[i] = name

\* C28: the error a chat or embed call throws follows the retry policy: a
\* transient failure of the underlying API is surfaced only after the
\* request was sent more than once, a persistent failure after it was sent
\* exactly once, and the error carries the provider's name and the status of
\* the failed response.
RetryPolicy ==
  pvCall.pc = "thrown" =>
    /\ Transient(pvResponse) => AttemptsOfRequest > 1
    /\ Persistent(pvResponse) => AttemptsOfRequest = 1
    /\ NamesProvider(pvError, pvCall.name)
    /\ pvError.status = pvResponse.status
(***************************************************************************)
(* C29: embedding in-flight cap.                                           *)
(***************************************************************************)
\* the callers awaiting provider.embed in indexFile
EmbedInFlight == { r \in RunIds : run[r].pc = "embed" }

\* a cap that binds: one request fewer than there are concurrent callers
MaxInFlight == Cardinality(QueueRuns) - 1

\* C29: at any time the number of embed requests in flight to the provider,
\* summed over the concurrent callers, is at most the maximum; a caller
\* that arrives at the cap waits.
EmbedInFlightCap == Cardinality(EmbedInFlight) <= MaxInFlight

(***************************************************************************)
(* C3 -- Cascade on deletion: once the Indexer has handled an unlink event *)
(* for path p, the store holds no Document with path p, no Chunk of it and *)
(* no Link whose source is p, and every Link from another source whose     *)
(* target is p is still there.                                             *)
(***************************************************************************)
CascadeOnDeletion ==
  [][\A r \in QueueRuns :
       (run[r].pc = "unlink" /\ run'[r] # run[r])
       => LET p == CurrentPath(r)
              ids == { d.id : d \in getDocumentByPath(Store, p) }
          IN /\ \A d \in documents' : d.path # p
             /\ \A i \in 1..Len(chunks') : chunks'[i].document_id \notin ids
             /\ \A l \in links' : l.source_path # p
             /\ \A l \in links : l.target_path = p /\ l.source_path # p
                                   => l \in links']_vars
(***************************************************************************)
(* C30: cosine similarity edge cases.                                      *)
(***************************************************************************)
ZeroMagnitude(a) == \A i \in 1..Len(a) : a[i] = 0

\* C30: a cosineSimilarity call throws when its vectors differ in length,
\* returns exactly 0 when they have the same length and one of them has
\* zero magnitude, and for vectors of the same length returns what the call
\* with the arguments exchanged returns.
CosineEdgeCases ==
  simResult # NoValue =>
    /\ Len(simA) # Len(simB) => simResult = Throws
    /\ Len(simA) = Len(simB) /\ (ZeroMagnitude(simA) \/ ZeroMagnitude(simB))
         => simResult = Zero
    /\ Len(simA) = Len(simB) => simResult = cosineSimilarityFloat(simB, simA)
(***************************************************************************)
(* C31: markdown link filter.                                              *)
(***************************************************************************)
\* an absolute external URL: scheme://...
HasScheme(url) == includes(url, "://")

\* the nodes visited so far whose target is no absolute external URL
RECURSIVE LocalTargets(_, _)
LocalTargets(nodes, n) ==
  IF n = 0 THEN << >>
  ELSE LET rest == LocalTargets(nodes, n - 1)
       IN IF HasScheme(nodes[n].url) THEN rest ELSE Append(rest, MarkdownLink(nodes[n]))

\* C31: the Links of type 'markdown' that parseMarkdown has recorded are
\* those of the visited inline links whose target is not an absolute
\* external URL: a target with a URL scheme (scheme://...) is never
\* recorded, whatever its file extension.
MarkdownLinkFilter == mdLinks = LocalTargets(mdNodes, mdVisited)
(***************************************************************************)
(* C32: semantic chunking bound.                                           *)
(***************************************************************************)
\* the chunks a step has pushed
Pushed == SubSeq(scChunks', Len(scChunks) + 1, Len(scChunks'))

RECURSIVE SumTokens(_)
SumTokens(cs) == IF cs = << >> THEN 0 ELSE Head(cs).tokenCount + SumTokens(Tail(cs))

SemanticChunksBounded ==
  /\ \A i \in 1..Len(scChunks) :
       /\ scChunks[i].tokenCount <= scMaxChunkSize
       /\ scChunks[i].index = i - 1
  /\ scCurrentTokens <= scMaxChunkSize

\* a paragraph longer than maxChunkSize goes into windows of its own: the
\* chunks pushed after the flushed one hold exactly its tokens and none
\* exceeds maxChunkSize
LongParagraphSplit ==
  (SemanticParagraph /\ scParagraphs[scNext] > scMaxChunkSize) =>
    LET flushed == IF scCurrentChunk # << >> THEN 1 ELSE 0
        windows == SubSeq(Pushed, flushed + 1, Len(Pushed))
    IN /\ SumTokens(windows) = scParagraphs[scNext]
       /\ \A i \in 1..Len(windows) :
            windows[i].tokenCount \in 1..scMaxChunkSize
       /\ scCurrentChunk' = << >> /\ scCurrentTokens' = 0

\* C32: for every content and every maxChunkSize >= 1, every chunk
\* chunkDocumentSemantic emits has tokenCount <= maxChunkSize, the chunk
\* indices are 0..n-1 in emission order, and a paragraph longer than
\* maxChunkSize is split into token windows none of which exceeds it.
SemanticChunkingBound == []SemanticChunksBounded /\ [][LongParagraphSplit]_vars

\* a call has returned after flushing a chunk before a long paragraph and
\* splitting that paragraph into a full and a partial window
SemanticChunkingBoundWitness ==
  /\ scPc = "returned"
  /\ scMaxChunkSize = 3
  /\ scParagraphs = <<2, 4, 1>>
  /\ scChunks = <<SemChunk(0, 2), SemChunk(1, 3), SemChunk(2, 1), SemChunk(3, 1)>>
(***************************************************************************)
(* C33: Watcher lifecycle.                                                 *)
(***************************************************************************)
\* the state of the Watcher: Stopped, Starting (initial scan) or Watching
Phase(fw) ==
  IF fw.watcher = 0 THEN "Stopped"
  ELSE IF fw.readyPromise \in fw.resolved THEN "Watching"
  ELSE "Starting"

\* the initial scan of the current start is complete before the Watcher is
\* Watching, before its reconciliation timer is armed, and before an
\* indexAll call begins indexing
InitialScanFirst ==
  LET fw == lcWatchers[1]
  IN /\ Phase(fw) = "Watching" => InitialScanDone(fw, fw.watcher)
     /\ fw.watcher # 0 /\ fw.intervals # {} => InitialScanDone(fw, fw.watcher)
     /\ \A c \in CallIds :
          lcCalls[c].pc = "indexing" => InitialScanDone(fw, lcCalls[c].awaits)

LifecycleStep ==
  LET fw == lcWatchers[1]
      fw2 == lcWatchers'[1]
  IN /\ Phase(fw) # Phase(fw2) =>
          \/ Phase(fw) = "Stopped" /\ Phase(fw2) = "Starting" /\ WatcherStart
          \/ Phase(fw) = "Starting" /\ Phase(fw2) = "Watching"
          \/ Phase(fw2) = "Stopped" /\ WatcherStop
     /\ WatcherStart /\ fw.watcher # 0 =>
          lcLast'.error = "Watcher is already running" /\ fw2 = fw
     /\ (\E c \in CallIds : WatcherIndexAll(c)) /\ fw.watcher = 0 =>
          lcLast'.error = "Watcher not started" /\ lcCalls' = lcCalls

\* C33: a Watcher moves only Stopped -> Starting -> Watching and back to
\* Stopped on stop(); start() on a started Watcher fails with 'Watcher is
\* already running' and changes nothing; indexAll() on a Watcher that was
\* not started fails with 'Watcher not started'; the reconciliation timer
\* is armed only after the initial scan completed and indexAll() does not
\* begin indexing before the initial scan is complete.
WatcherLifecycle == []InitialScanFirst /\ [][LifecycleStep]_vars
(***************************************************************************)
(* C34 -- No concurrent handling of one path: of all the sources of work   *)
(* (the queue flushes and indexAll), no two have an operation for the same *)
(* path in flight at once; and a Document is never written for a path from *)
(* content that was read before an unlink of that path was handled.        *)
(***************************************************************************)
InFlight(r, p) ==
  /\ run[r].pc \in {"read", "stat", "embed", "unlink"}
  /\ CurrentPath(r) = p

\* an operation that has read p's content and has its write still to come
ReadAhead(r, p) == run[r].pc \in {"stat", "embed"} /\ CurrentPath(r) = p

OnePathOneOperation ==
  \A p \in Paths : \A r1, r2 \in RunIds :
    (InFlight(r1, p) /\ InFlight(r2, p)) => r1 = r2

UnlinkNotOvertaken ==
  \A p \in Paths : \A r1, r2 \in RunIds :
    (r1 # r2 /\ run[r1].pc = "unlink" /\ CurrentPath(r1) = p /\ Unlink(r1))
      => ~ReadAhead(r2, p)

NoConcurrentPathHandling ==
  /\ []OnePathOneOperation
  /\ [][UnlinkNotOvertaken]_vars
(***************************************************************************)
(* C35 -- Convergence of the store to the vault: when the Watcher is       *)
(* Watching with nothing left to do (no event queued, no timer pending but *)
(* the poll, no run or scan in progress, every change seen) and no         *)
(* indexing error was reported, the Documents' paths are exactly the files *)
(* of the vault and each Document's checksum is that of its file's content.*)
(***************************************************************************)
Quiet ==
  /\ Watching
  /\ pollTimer
  /\ debounceTimer = 0
  /\ eventQueue = << >>
  /\ ~scan.active
  /\ \A r \in RunIds : run[r].pc = "idle"
  /\ knownFiles = Snapshot(files)
  /\ missedChanges = {}
  /\ errorLog = {}

VaultPaths == {p \in Paths : files[p].exists}

DocumentPaths == {d.path : d \in documents}

StoreConverges ==
  Quiet => /\ DocumentPaths = VaultPaths
           /\ \A d \in documents :
                d.path \in VaultPaths => d.checksum = Checksum(files[d.path].content)
(***************************************************************************)
(* C36: Indexer start/stop lifecycle.                                      *)
(***************************************************************************)
\* a FileWatcher is active: its chokidar watcher is open, a 'ready' handler
\* of it is scanning, or an interval of it is set
ActiveWatcher(fw) == fw.watcher # 0 \/ fw.scanning # {} \/ fw.intervals # {}

ActiveWatchers == { w \in WatcherIds : ActiveWatcher(lcWatchers[w]) }

AtMostOneWatcher == Cardinality(ActiveWatchers) <= 1

IndexerLifecycleStep ==
  /\ \A c \in CallIds :
       /\ IndexerStartAccessed(c) /\ ~lcVault =>
            /\ lcLast'.error = "Vault path does not exist"
            /\ ~lcRunning' /\ lcWatcher' = 0 /\ lcWatchers' = lcWatchers
       /\ IndexerStart(c) /\ lcRunning =>
            UNCHANGED <<lcWatchers, lcCalls, lcRunning, lcWatcher>>
  /\ IndexerStop /\ ~lcRunning =>
       UNCHANGED <<lcWatchers, lcCalls, lcRunning, lcWatcher>>

\* C36: start() on a vault path that does not exist fails and leaves the
\* Indexer not running with no Watcher created; start() on a running
\* Indexer and stop() on a stopped Indexer are no-ops; in every reachable
\* state, overlapping start() calls and start() after stop() included, at
\* most one Watcher created by the Indexer is active.
IndexerLifecycle == []AtMostOneWatcher /\ [][IndexerLifecycleStep]_vars
(***************************************************************************)
(* C37 -- No orphan chunks: in every state of the store, after any         *)
(* sequence of index, re-index and delete operations, every Chunk row's    *)
(* document_id is the id of a Document row; and a step that deletes the    *)
(* Document of a path leaves no Chunk row with that Document's id.         *)
(***************************************************************************)
DocumentIds == { d.id : d \in documents }

NoOrphan == \A i \in 1..Len(chunks) : chunks[i].document_id \in DocumentIds

\* the step removed the Document of p: it was a deleteDocument(p)
Deleted(p) ==
  /\ getDocumentByPath(Store, p) # {}
  /\ \A d \in documents' : d.path # p

DeleteRemovesChunks ==
  \A p \in Paths :
    Deleted(p) => \A d \in getDocumentByPath(Store, p) :
                    \A i \in 1..Len(chunks') : chunks'[i].document_id # d.id

NoOrphanChunks == []NoOrphan /\ [][DeleteRemovesChunks]_vars

\* a.md was indexed with a text that has a link (and so has Chunks) and then
\* deleted, its Link row staying behind; another Document with Chunks is there
NoOrphanChunksWitness ==
  /\ getDocumentByPath(Store, "a.md") = {}
  /\ \E l \in links : l.source_path = "a.md"
  /\ getDocumentByPath(Store, "b.md") # {}
  /\ chunks # << >>
(***************************************************************************)
(* C38 -- Progress event sequence: a non-empty queue flush reports, in     *)
(* this order, one 'indexing' event with current = 0, then for its i-th    *)
(* event one event with current = i, of phase 'indexing' when the handler  *)
(* returned and 'error' when it threw, then one 'complete' event with      *)
(* current = total; every reported event has 0 <= current <= total; and a  *)
(* flush of an empty queue reports nothing.                                *)
(***************************************************************************)
Total == Len(pqEvents)

ProgressSequence ==
  pqOnProgress =>
    /\ Total = 0 => pqLog = << >>
    /\ \A k \in 1..Len(pqLog) : 0 <= pqLog[k].current /\ pqLog[k].current <= pqLog[k].total
    /\ Total > 0 =>
         /\ Len(pqLog) = 1 + pqI + (IF pqPc = "returned" THEN 1 ELSE 0)
         /\ pqLog[1] = IndexProgress("indexing", 0, Total, Undefined, Undefined)
         /\ \A k \in 1..pqI : /\ pqLog[k + 1].current = k
                              /\ pqLog[k + 1].total = Total
                              /\ pqLog[k + 1].phase \in {"indexing", "error"}
                              /\ pqLog[k + 1].currentFile = pqEvents[k].path
         /\ pqPc = "returned" =>
              /\ pqI = Total
              /\ pqLog[Total + 2] = IndexProgress("complete", Total, Total,
                                                  Undefined, Undefined)

PhaseByOutcome ==
  \A ok \in BOOLEAN :
    (pqOnProgress /\ ProgressHandle(ok))
      => pqLog'[Len(pqLog')].phase = IF ok THEN "indexing" ELSE "error"

ProgressEventSequence == []ProgressSequence /\ [][PhaseByOutcome]_vars

\* a flush of three events whose first handler threw has returned
ProgressEventSequenceWitness ==
  /\ pqOnProgress
  /\ pqPc = "returned"
  /\ Total = 3
  /\ Len(pqLog) = 5
  /\ pqLog[2].phase = "error"
  /\ pqLog[3].phase = "indexing"
  /\ pqLog[5].phase = "complete"
(***************************************************************************)
(* C39 -- Chunker termination: for every input of N tokens and every       *)
(* (chunkSize, overlap) with 0 <= overlap < chunkSize, chunkDocument       *)
(* returns, after at most ceil(N / (chunkSize - overlap)) windows; it      *)
(* returns no chunk when N = 0; and the window start advances by           *)
(* chunkSize - overlap in every iteration.                                 *)
(***************************************************************************)
Stride == ckSize - ckOverlap

Ceil(n, s) == (n + s - 1) \div s

\* the windows taken so far: the window starts are 0, Stride, 2 * Stride, ...
Windows == ckI \div Stride

WindowBound ==
  /\ ckI % Stride = 0
  /\ Windows <= Ceil(ckN, Stride)
  /\ ckPc = "done" => Windows = Ceil(ckN, Stride)

EmptyInput == (ckPc = "done" /\ ckN = 0) => (ckOut = << >> /\ Windows = 0)

StartAdvances == ckI' # ckI => ckI' = ckI + Stride

ChunkerTermination ==
  /\ []WindowBound
  /\ []EmptyInput
  /\ [][StartAdvances]_vars
  /\ <>(ckPc = "done")

\* 56 tokens in windows of 10 with overlap 5: twelve windows, the last one
\* starting at 55, and the loop left with i = 60
ChunkerTerminationWitness ==
  /\ ckPc = "done"
  /\ ckN = 56 /\ ckSize = 10 /\ ckOverlap = 5
  /\ ckI = 60
  /\ Windows = 12

(***************************************************************************)
(* C4 -- Atomic replacement: in every state a reader can see, each         *)
(* Document has exactly the Chunk rows and the Link rows of its own        *)
(* content (none missing, none of an older version, no Chunk without a     *)
(* Document); an indexDocument that fails leaves the store as it was, and  *)
(* so does stopping the Indexer.                                           *)
(***************************************************************************)
ContentOf(checksum) == CHOOSE c \in Contents : Checksum(c) = checksum

ChunkRowsOf(d) == SelectSeq(chunks, LAMBDA ch : ch.document_id = d.id)

DocumentComplete(d) ==
  LET c == ContentOf(d.checksum)
      rowsWith(embeddings, model) ==
        [i \in 1..Len(ChunksOf(c)) |-> ChunkRow(d.id, ChunksOf(c)[i], embeddings[i], model)]
  IN /\ d.title = TitleOf(c)
     /\ \/ ChunkRowsOf(d) = rowsWith(EmbeddingsOf(c), "mock-model")
        \/ ChunkRowsOf(d) = rowsWith(NullEmbeddings(c), "none")
     /\ { l \in links : l.source_path = d.path } = InsertLinksFrom({}, d.path, LinksOf(c), 1)

StoreComplete ==
  /\ \A d \in documents : DocumentComplete(d)
  /\ \A d, e \in documents : d.path = e.path => d = e
  /\ \A i \in 1..Len(chunks) : \E d \in documents : d.id = chunks[i].document_id

AtomicReplacement ==
  /\ []StoreComplete
  /\ [][/\ \A r \in RunIds :
             run'[r] # run[r] =>
               \A ok \in BOOLEAN, failAt \in FailPoints \ {0} :
                 (StatResolves(r, failAt) \/ EmbedSettles(r, ok, failAt))
                   => UNCHANGED storeVars
        /\ Stop => UNCHANGED storeVars]_vars

\* the Indexer was stopped, a transaction for a.md has failed, and a.md's
\* first rows have been replaced by the rows of its edited text
AtomicReplacementWitness ==
  /\ isRunning = "stopped"
  /\ "a.md" \in errorLog
  /\ \E d \in documents : d.path = "a.md" /\ d.id > 1 /\ d.checksum = Checksum("c2")
  /\ \A d \in documents : d.path = "a.md" => Len(ChunkRowsOf(d)) = Len(ChunksOf("c2"))

(***************************************************************************)
(* C5 -- Partial indexing failure: when embed rejects for a file that was  *)
(* read, parsed and chunked and the transaction commits, the Document is   *)
(* stored with every Chunk's embedding and embedding_model null, the event *)
(* handler does not throw (no error is reported) and the run goes on with  *)
(* its remaining events.                                                   *)
(***************************************************************************)
StoredWithoutEmbeddings(docs, chks, p, c) ==
  \E d \in docs :
    /\ d.path = p
    /\ d.checksum = Checksum(c)
    /\ LET rows == SelectSeq(chks, LAMBDA ch : ch.document_id = d.id)
       IN /\ Len(rows) = Len(ChunksOf(c))
          /\ \A i \in 1..Len(rows) : rows[i].embedding = NullEmb
                                     /\ rows[i].embedding_model = Null

ChunkLoopAgrees == ckPc = "done" => ckOut = chunkDocument(ckN, ckSize, ckOverlap)

(***************************************************************************)
(* C6 - Chunk size invariant: every chunk chunkDocument returns has        *)
(* tokenCount <= chunkSize, and no returned chunk has fewer than 50 tokens *)
(* unless it is the only chunk returned.                                   *)
(***************************************************************************)
ChunkSizeInvariant ==
  ckPc = "done" =>
    \A j \in 1..Len(ckOut) :
      /\ ckOut[j].tokenCount <= ckSize
      /\ ckOut[j].tokenCount < MIN_CHUNK_TOKENS => Len(ckOut) = 1

(***************************************************************************)
(* C7 - Top-K bound: a search asked for k >= 0 results returns at most k,  *)
(* and the returned scores are non-increasing from first to last.          *)
(***************************************************************************)
TopKBound ==
  (searchResult.status = "ok" /\ searchResult.k >= 0) =>
    /\ Len(searchResult.results) <= searchResult.k
    /\ \A i \in 1..(Len(searchResult.results) - 1) :
         ScoreGE(searchResult.results[i].score, searchResult.results[i + 1].score)

\* a search cut by k: three candidates pass the floor with different scores, two returned
TopKBoundWitness ==
  /\ searchResult.status = "ok"
  /\ searchResult.k = 2
  /\ Len(searchResult.results) = 2
  /\ Len(FilterMinScore([i \in 1..Len(SearchCandidates(Store, NoFilter)) |->
        [score |-> cosineSimilarity(<<1, 0>>, SearchCandidates(Store, NoFilter)[i].embedding.vec)]])) >= 3
  /\ ~ScoreGE(searchResult.results[2].score, searchResult.results[1].score)

(***************************************************************************)
(* C8 - Agent loop turn cap: runAgent calls the chat capability at most 10 *)
(* times for one user message; when the model has asked for tools in each  *)
(* of 10 turns (and the tools ran), the loop has stopped with the error    *)
(* 'Agent exceeded maximum iterations' and returned no answer; that error  *)
(* is raised in no other case.                                             *)
(***************************************************************************)
AssistantCount ==
  Cardinality({ j \in 1..Len(messages) : messages[j].role = "assistant" })

\* the calls of the current turn have all been answered in the transcript
TurnAnswered ==
  /\ Len(agCalls) > 0
  /\ Len(messages) > Len(agCalls)
  /\ \A m \in 1..Len(agCalls) :
       messages[Len(messages) - Len(agCalls) + m].role = "tool"

TurnTail(n) ==
  /\ Len(messages) >= n + 3
  /\ messages[Len(messages) - n].role = "assistant"
  /\ \A m \in 1..n :
       LET msg == messages[Len(messages) - n + m]
       IN /\ msg.role = "tool"
          /\ msg.tool_call_id = agCalls[m].id
          /\ msg.name = agCalls[m].name

Quiescent ==
  /\ Watching
  /\ pollTimer
  /\ debounceTimer = 0
  /\ eventQueue = << >>
  /\ ~scan.active
  /\ \A r \in RunIds : run[r].pc = "idle"
  /\ knownFiles = Snapshot(files)

DeletionReflected ==
  \A p \in deletedIndexed :
    Quiescent => /\ getDocumentByPath(Store, p) = {}
                 /\ \A i \in 1..Len(chunks) :
                      \E d \in documents : d.id = chunks[i].document_id /\ d.path # p
====
